---- MODULE Spec2Model ----
(***************************************************************************)
(* HLS playlist orchestrator: the in-memory segment registry               *)
(* (InMemoryRepository over a Store, guarded by one sync.RWMutex), the     *)
(* window selector and the playlist renderer, composed by Service.         *)
(*                                                                         *)
(* Goroutines (one per request) call the Service concurrently.  A call is  *)
(* split at the points where other goroutines can observe or interleave:   *)
(* acquiring the lock, and each read or write of registry state made while *)
(* the lock is held.  Segment.ReceivedAt (time.Now) is written once and    *)
(* never read by any operation; it is left out of the Segment record.      *)
(* Durations are float64 seconds in the source; here they are tenths of a  *)
(* second (20 is 2.0), which is exact for one-decimal values.              *)
(***************************************************************************)
EXTENDS Integers, Sequences, FiniteSets, TLC

\* ------------------------------------------------------------------ bounds

\* Sequence numbers offered to RegisterSegment are 1..MaxSeq.
MaxSeq == 4

\* Total number of Service calls started in one behaviour.
MaxCalls == 4

\* ------------------------------------------------------------ input domains

Goroutines == {"g1", "g2"}

StreamIDs == {"s1", "s2"}

RenditionIDs == {"720p", "480p"}

Seqs == 1..MaxSeq

\* Duration (tenths of a second) and path sent with a segment; the second
\* pair is what a conflicting re-registration of a sequence carries.
PayloadA == [Duration |-> 20, Path |-> "/a.ts"]

PayloadB == [Duration |-> 25, Path |-> "/b.ts"]

\* windowSize arguments given to NewService (a negative one is among
\* RunWindowSizeArgs).
WindowSizeArgs == {0, 2}

\* ------------------------------------------------------------------ models.go

\* Segment{Sequence, Duration, Path}
Segment(seq, pl) == [Sequence |-> seq, Duration |-> pl.Duration, Path |-> pl.Path]

\* The registrations callers send: every sequence on the first rendition of
\* the first stream, a conflicting payload for its sequence 1, and one
\* segment on each other stream and rendition used.
RegisterInputs ==
  { <<"s1", "720p", Segment(q, PayloadA)>> : q \in Seqs }
    \cup { <<"s1", "720p", Segment(1, PayloadB)>>,
           <<"s1", "480p", Segment(1, PayloadA)>>,
           <<"s2", "720p", Segment(1, PayloadB)>> }

\* make(map[...]...): the empty map
EmptyMap == <<>>

\* &RenditionState{ID: renditionID, Segments: make(map[int64]Segment)}
NewRenditionState == [Segments |-> EmptyMap, Ended |-> FALSE]

\* &StreamState{ID: streamID, Renditions: make(map[RenditionID]*RenditionState)}
NewStreamState == [Renditions |-> EmptyMap, Ended |-> FALSE]

\* m[k] = v on a map
MapSet(m, k, v) == [x \in (DOMAIN m) \cup {k} |-> IF x = k THEN v ELSE m[x]]

\* ------------------------------------------------------------------ errors

ErrStreamEnded == "stream has ended"

ErrRenditionEnded == "rendition has ended"

Nil == "nil"

\* ------------------------------------------------------------------ service.go

DefaultWindowSize == 6

\* a constructor that keeps the windowSize it is given
NewServiceNoDefault(ws) == ws

\* NewService: a non-positive windowSize becomes DefaultWindowSize.
NewService(ws) == IF ws <= 0 THEN DefaultWindowSize ELSE ws

\* ------------------------------------------------------------------ sorting

RECURSIVE InsertSeq(_, _)
\* insert sequence number x into the ascending list s
InsertSeq(s, x) ==
  IF s = <<>> THEN <<x>>
  ELSE IF x < Head(s) THEN <<x>> \o s
  ELSE <<Head(s)>> \o InsertSeq(Tail(s), x)

\* a sort that leaves the list as the map iteration produced it
SortSequencesNoop(s) == s

RECURSIVE SortSequences(_)
\* sort.Slice(sequences, func(i, j) { return sequences[i] < sequences[j] })
SortSequences(s) ==
  IF s = <<>> THEN <<>> ELSE InsertSeq(SortSequences(Tail(s)), Head(s))

RECURSIVE InsertSegment(_, _)
InsertSegment(s, x) ==
  IF s = <<>> THEN <<x>>
  ELSE IF x.Sequence < Head(s).Sequence THEN <<x>> \o s
  ELSE <<Head(s)>> \o InsertSegment(Tail(s), x)

RECURSIVE SortSegments(_)
\* sort.Slice(segs, func(i, j) { return segs[i].Sequence < segs[j].Sequence })
SortSegments(s) ==
  IF s = <<>> THEN <<>> ELSE InsertSegment(SortSegments(Tail(s)), Head(s))

\* for k := range m: every order in which Go may iterate the keys of a map
MapOrders(m) ==
  { o \in [1..Cardinality(DOMAIN m) -> DOMAIN m] :
      \A i, j \in DOMAIN o : i # j => o[i] # o[j] }

\* ------------------------------------------------------------ window selector

\* a slice that keeps the head of the list instead of its tail
SliceHead(segs, start) == SubSeq(segs, 1, Len(segs) - start)

\* segs[start:] (1-based here: elements start+1 .. Len)
SliceFrom(segs, start) == SubSeq(segs, start + 1, Len(segs))

\* a selector that never slides: the window starts at the oldest segment
windowStartNoSlide(segs, windowSize) == 0

\* start := 0; if len(segs) > windowSize { start = len(segs) - windowSize }
windowStart(segs, windowSize) ==
  IF Len(segs) > windowSize THEN Len(segs) - windowSize ELSE 0

RECURSIVE visibleLoopNoBreak(_, _, _)
RECURSIVE visibleLoopJumpOne(_, _, _)
\* the loop with a gap test that lets one missing number pass
visibleLoopJumpOne(windowed, i, visible) ==
  IF i > Len(windowed) THEN visible
  ELSE IF i > 1 /\ windowed[i].Sequence > windowed[i - 1].Sequence + 2
       THEN visible
       ELSE visibleLoopJumpOne(windowed, i + 1, Append(visible, windowed[i]))

\* the loop without its gap test: every windowed segment is appended
visibleLoopNoBreak(windowed, i, visible) ==
  IF i > Len(windowed) THEN visible
  ELSE visibleLoopNoBreak(windowed, i + 1, Append(visible, windowed[i]))

RECURSIVE visibleLoop(_, _, _)
\* for i := 0; i < len(windowed); i++ { if i > 0 && gap { break }; append }
visibleLoop(windowed, i, visible) ==
  IF i > Len(windowed) THEN visible
  ELSE IF i > 1 /\ windowed[i].Sequence # windowed[i - 1].Sequence + 1
       THEN visible
       ELSE visibleLoop(windowed, i + 1, Append(visible, windowed[i]))

RECURSIVE slidingLoop(_, _, _)
\* for i := 0; i < len(segs); i++ { if i > 0 && gap { break }; out = append(out, segs[i]) }
slidingLoop(segs, i, out) ==
  IF i > Len(segs) THEN out
  ELSE IF i > 1 /\ segs[i].Sequence # segs[i - 1].Sequence + 1
       THEN out
       ELSE slidingLoop(segs, i + 1, Append(out, segs[i]))

\* contiguousSlidingWindow: the contiguous run from the start of the list,
\* then at most the last windowSize segments of that run
contiguousSlidingWindow(segs, windowSize) ==
  IF windowSize <= 0 \/ Len(segs) = 0 THEN <<>>
  ELSE LET out == slidingLoop(segs, 1, <<>>)
       IN  IF Len(out) > windowSize
           THEN SliceFrom(out, Len(out) - windowSize)
           ELSE out

\* a selector that filters from the start of the list and then slides
contiguousVisibleSegmentsFilterThenSlide(segs, windowSize) ==
  contiguousSlidingWindow(SortSegments(segs), windowSize)

\* segs[start:] panics when start > len(segs), which a negative windowSize gives
contiguousVisibleSegmentsPanics(segs, windowSize) ==
  Len(segs) # 0 /\ windowStart(segs, windowSize) > Len(segs)

\* contiguousVisibleSegments: sort, keep the last windowSize, then the
\* contiguous prefix of those
contiguousVisibleSegments(segs, windowSize) ==
  IF Len(segs) = 0 THEN <<>>
  ELSE LET sorted   == SortSegments(segs)
           windowed == SliceFrom(sorted, windowStart(sorted, windowSize))
       IN  visibleLoop(windowed, 1, <<>>)

\* ---------------------------------------------------------- playlist renderer

EXTM3U == <<"#EXTM3U">>

VERSION == <<"#EXT-X-VERSION:3">>

ENDLIST == <<"#EXT-X-ENDLIST">>

BlankLine == <<"">>

\* fmt.Sprintf("#EXT-X-TARGETDURATION:%d\n", n)
TargetDurationLine(n) == <<"#EXT-X-TARGETDURATION:", n>>

\* fmt.Sprintf("#EXT-X-MEDIA-SEQUENCE:%d\n", n)
MediaSequenceLine(n) == <<"#EXT-X-MEDIA-SEQUENCE:", n>>

\* fmt.Sprintf("#EXTINF:%.1f,\n", d): sign, integer part, ".", one decimal digit
ExtInfLine(d) ==
  IF d < 0 THEN <<"#EXTINF:", "-", (-d) \div 10, ".", (-d) % 10, ",">>
  ELSE <<"#EXTINF:", d \div 10, ".", d % 10, ",">>

\* b.WriteString(seg.Path); b.WriteString("\n")
PathLine(path) == <<path>>

RECURSIVE maxDuration(_, _)
\* max := 0.0; for _, seg := range segments { if seg.Duration > max { max = seg.Duration } }
maxDuration(segments, max) ==
  IF segments = <<>> THEN max
  ELSE maxDuration(Tail(segments),
                   IF Head(segments).Duration > max THEN Head(segments).Duration ELSE max)

\* a conversion to whole seconds that drops the fraction
CeilTruncating(d) == d \div 10

\* math.Ceil of a duration in tenths, as whole seconds
Ceil(d) == (d + 9) \div 10

\* targetDurationFromSegments
targetDurationFromSegments(segments) ==
  LET max == maxDuration(segments, 0)
  IN  IF max <= 0 THEN 1 ELSE Ceil(max)

RECURSIVE segmentLinesReversed(_)
\* the entries written from the last segment to the first
segmentLinesReversed(segments) ==
  IF segments = <<>> THEN <<>>
  ELSE segmentLinesReversed(Tail(segments))
         \o <<ExtInfLine(Head(segments).Duration), PathLine(Head(segments).Path)>>

RECURSIVE segmentLines(_)
\* for _, seg := range segments { "#EXTINF:%.1f,\n" ; seg.Path ; "\n" }
segmentLines(segments) ==
  IF segments = <<>> THEN <<>>
  ELSE <<ExtInfLine(Head(segments).Duration), PathLine(Head(segments).Path)>>
         \o segmentLines(Tail(segments))

\* the end marker written when the rendition is not ended
endListLinesInverted(ended) == IF ended THEN <<>> ELSE <<ENDLIST>>

\* if ended { b.WriteString("#EXT-X-ENDLIST\n") }
endListLines(ended) == IF ended THEN <<ENDLIST>> ELSE <<>>

\* BuildLivePlaylist: the playlist text as its list of lines
BuildLivePlaylist(segments, ended) ==
  IF Len(segments) = 0
  THEN <<EXTM3U, VERSION, TargetDurationLine(1), MediaSequenceLine(0)>>
         \o endListLines(ended)
  ELSE <<EXTM3U, VERSION,
         TargetDurationLine(targetDurationFromSegments(segments)),
         MediaSequenceLine(segments[1].Sequence),
         BlankLine>>
         \o segmentLines(segments)
         \o endListLines(ended)

\* ------------------------------------------------------------------- state

VARIABLES
  streams,          \* InMemoryStore.streams: StreamID -> StreamState
  mu,               \* InMemoryRepository.mu: the writer holding it, the readers holding it
  windowSize,       \* Service.windowSize
  windowSizeArg,    \* the windowSize argument NewService was called with
  metrics,          \* Metrics: the counters the HTTP handlers increment
  pc,               \* where each goroutine is in its call
  frame,            \* each goroutine's call: arguments, locals, return value
  calls,            \* number of calls started so far
  endReturned,      \* history: streams for which some EndStream call has returned
  endReturnedKnown, \* history: streams some EndStream call found in the store and has returned for
  accepted,         \* history: <<stream, rendition, segment>> of every registration stored as new
  outOfOrder        \* history: <<stream, rendition>> that stored a segment below one it already held

vars == <<streams, mu, windowSize, windowSizeArg, metrics, pc, frame, calls,
          endReturned, endReturnedKnown, accepted, outOfOrder>>

NoOne == "none"

\* metrics.New(): every counter at zero
NewMetrics == [segmentsRegisteredTotal |-> 0, streamsEndedTotal |-> 0]

\* a request body nothing can be decoded from
NoBody == [wellFormed |-> FALSE, typed |-> FALSE, has |-> {},
           sequence |-> 0, duration |-> 0, path |-> ""]

NoSegment == [Sequence |-> 0, Duration |-> 0, Path |-> ""]

\* what a call returns; a call fills in only the fields its signature has
NoRet == [err |-> Nil, ok |-> FALSE, ended |-> FALSE, segments |-> <<>>,
          window |-> <<>>, m3u8 |-> <<>>, n |-> 0, outcome |-> "",
          streamEnded |-> FALSE]

IdleFrame == [op |-> "none", streamID |-> "", renditionID |-> "",
              seg |-> NoSegment, todo |-> {}, afterEnd |-> FALSE,
              afterEndKnown |-> FALSE, afterSeenEnded |-> FALSE, healedSeq |-> 0,
              blocked |-> FALSE, prev |-> NoRet,
              segments |-> <<>>, ended |-> FALSE,
              method |-> "", body |-> NoBody, status |-> 0, ret |-> NoRet]

Init ==
  /\ streams = EmptyMap
  /\ mu = [writer |-> NoOne, readers |-> {}]
  /\ windowSizeArg \in WindowSizeArgs
  /\ windowSize = NewService(windowSizeArg)
  /\ metrics = NewMetrics
  /\ pc = [g \in Goroutines |-> "idle"]
  /\ frame = [g \in Goroutines |-> IdleFrame]
  /\ calls = 0
  /\ endReturned = {}
  /\ endReturnedKnown = {}
  /\ accepted = {}
  /\ outOfOrder = {}

\* ------------------------------------------------------------- sync.RWMutex

\* a write lock that waits for the writer but not for the readers
CanLockDespiteReaders == mu.writer = NoOne

\* mu.Lock() can return
CanLock == mu.writer = NoOne /\ mu.readers = {}

\* a read lock that does not wait for the writer
CanRLockAnyTime == TRUE

\* mu.RLock() can return
CanRLock == mu.writer = NoOne

Lock(g) == [mu EXCEPT !.writer = g]

Unlock == [mu EXCEPT !.writer = NoOne]

RLock(g) == [mu EXCEPT !.readers = @ \cup {g}]

RUnlock(g) == [mu EXCEPT !.readers = @ \ {g}]

\* --------------------------------------------------------- InMemoryStore

\* GetStream: ok
StreamExists(st, s) == s \in DOMAIN st

\* SetStream: s.streams[st.ID] = st
SetStream(st, s, state) == MapSet(st, s, state)

\* ListStreamIDs
ListStreamIDs(st) == DOMAIN st

\* ------------------------------------------------------ InMemoryRepository

\* a get-or-create that replaces the stored stream by a fresh one
getOrCreateStreamLockedAlwaysNew(st, s) == SetStream(st, s, NewStreamState)

\* getOrCreateStreamLocked: the store after the call
getOrCreateStreamLocked(st, s) ==
  IF StreamExists(st, s) THEN st ELSE SetStream(st, s, NewStreamState)

\* a rendition lookup that installs a fresh RenditionState every time
getOrCreateRenditionLockedAlwaysNew(st, s, r) ==
  SetStream(st, s, [st[s] EXCEPT !.Renditions = MapSet(@, r, NewRenditionState)])

\* getOrCreateRenditionLocked: the store after the call
getOrCreateRenditionLocked(st, s, r) ==
  IF r \in DOMAIN st[s].Renditions THEN st
  ELSE [st EXCEPT ![s].Renditions = MapSet(@, r, NewRenditionState)]

\* a test of stream.Ended that never sees the flag
StreamEndedIgnored(st, s) == FALSE

\* if stream.Ended
StreamEnded(st, s) == st[s].Ended

\* if rendition.Ended
RenditionEnded(st, s, r) == st[s].Renditions[r].Ended

\* if _, exists := rendition.Segments[seg.Sequence]; exists
SegmentExists(st, s, r, seg) == seg.Sequence \in DOMAIN st[s].Renditions[r].Segments

\* a store that never writes the segment
storeSegmentNever(st, s, r, seg) == st

\* a store that keeps a segment only when it is above every sequence it holds
storeSegmentAppendOnly(st, s, r, seg) ==
  IF \E q \in DOMAIN st[s].Renditions[r].Segments : q >= seg.Sequence THEN st
  ELSE [st EXCEPT ![s].Renditions[r].Segments = MapSet(@, seg.Sequence, seg)]

\* a store that overwrites: the last registration of a sequence wins
storeSegmentOverwrite(st, s, r, seg) ==
  [st EXCEPT ![s].Renditions[r].Segments = MapSet(@, seg.Sequence, seg)]

\* rendition.Segments[seg.Sequence] = seg, unless the sequence is already there
storeSegment(st, s, r, seg) ==
  IF SegmentExists(st, s, r, seg) THEN st
  ELSE [st EXCEPT ![s].Renditions[r].Segments = MapSet(@, seg.Sequence, seg)]

\* an EndStream that sets the flag of every stream the store holds
markStreamEndedAll(st, s) == [x \in DOMAIN st |-> [st[x] EXCEPT !.Ended = TRUE]]

\* an EndStream that leaves the stream's own flag alone
markStreamEndedSkipped(st, s) == st

\* stream.Ended = true
markStreamEnded(st, s) == [st EXCEPT ![s].Ended = TRUE]

\* a cascade that empties the rendition it ends
markRenditionEndedDropsSegments(st, s, r) ==
  [st EXCEPT ![s].Renditions[r] = [Segments |-> EmptyMap, Ended |-> TRUE]]

\* a cascade that leaves the rendition's flag alone
markRenditionEndedSkipped(st, s, r) == st

\* rendition.Ended = true, in the loop over stream.Renditions
markRenditionEnded(st, s, r) == [st EXCEPT ![s].Renditions[r].Ended = TRUE]

\* the sorted copy GetRenditionSnapshot builds, the keys having been ranged
\* over in the order `order`
sortedCopy(segments, order) ==
  LET sequences == SortSequences(order)
  IN  [i \in 1..Len(sequences) |-> segments[sequences[i]]]

\* a snapshot that reports every rendition of a known stream as found
GetRenditionSnapshotAnyRendition(st, s, r, order) ==
  IF ~StreamExists(st, s)
  THEN [segments |-> <<>>, ended |-> FALSE, ok |-> FALSE]
  ELSE [segments |-> <<>>, ended |-> st[s].Ended, ok |-> TRUE]

\* GetRenditionSnapshot, between RLock and RUnlock: (segments, ended, ok)
GetRenditionSnapshot(st, s, r, order) ==
  IF ~StreamExists(st, s)
  THEN [segments |-> <<>>, ended |-> FALSE, ok |-> FALSE]
  ELSE IF r \notin DOMAIN st[s].Renditions
  THEN [segments |-> <<>>, ended |-> FALSE, ok |-> FALSE]
  ELSE LET rendition == st[s].Renditions[r]
       IN  IF Cardinality(DOMAIN rendition.Segments) = 0
           THEN [segments |-> <<>>, ended |-> rendition.Ended, ok |-> TRUE]
           ELSE [segments |-> sortedCopy(rendition.Segments, order),
                 ended |-> rendition.Ended, ok |-> TRUE]

\* a count of every known stream, ended or not
ActiveStreamCountAll(st) == Cardinality(ListStreamIDs(st))

\* ActiveStreamCount, between RLock and RUnlock
ActiveStreamCount(st) ==
  Cardinality({ id \in ListStreamIDs(st) : StreamExists(st, id) /\ ~st[id].Ended })

\* ------------------------------------------------------------ starting calls
\* A call's first step is its acquisition of the lock: a goroutine that has
\* called but does not hold the lock yet has read and written nothing.

\* a goroutine is free before its first call and once its call has returned
CanCall(g) == pc[g] \in {"idle", "ret"} /\ calls < MaxCalls

NewFrame(op, s, r, seg) ==
  [IdleFrame EXCEPT !.op = op, !.streamID = s, !.renditionID = r, !.seg = seg,
                    !.afterEnd = s \in endReturned,
                    !.afterEndKnown = s \in endReturnedKnown]

\* ------------------------------------------------------------ RegisterSegment

\* the frame of a call that has returned err
Returned(g, err, outcome) ==
  [frame EXCEPT ![g].ret = [NoRet EXCEPT !.err = err, !.outcome = outcome]]

\* Service.RegisterSegment(s, r, seg) is called; r.mu.Lock()
RS_Lock(g) ==
  /\ CanCall(g)
  /\ CanLock
  /\ \E in \in RegisterInputs :
       frame' = [frame EXCEPT ![g] = NewFrame("RegisterSegment", in[1], in[2], in[3])]
  /\ mu' = Lock(g)
  /\ pc' = [pc EXCEPT ![g] = "RS_Stream"]
  /\ calls' = calls + 1
  /\ UNCHANGED <<streams, windowSize, windowSizeArg, metrics, endReturned, endReturnedKnown,
                 accepted, outOfOrder>>

\* RegisterSegment creating the rendition before it tests stream.Ended
RS_StreamRenditionFirst(g) ==
  /\ pc[g] = "RS_Stream"
  /\ LET s  == frame[g].streamID
         r  == frame[g].renditionID
         st == getOrCreateRenditionLocked(getOrCreateStreamLocked(streams, s), s, r)
     IN  /\ streams' = st
         /\ IF StreamEnded(st, s)
            THEN /\ frame' = Returned(g, ErrStreamEnded, "rejected")
                 /\ mu' = Unlock
                 /\ pc' = [pc EXCEPT ![g] = "ret"]
            ELSE /\ pc' = [pc EXCEPT ![g] = "RS_Rendition"]
                 /\ UNCHANGED <<frame, mu>>
  /\ UNCHANGED <<windowSize, windowSizeArg, metrics, calls, endReturned, endReturnedKnown,
                 accepted, outOfOrder>>

\* RegisterSegment storing the segment before it tests stream.Ended
RS_StreamStoresFirst(g) ==
  /\ pc[g] = "RS_Stream"
  /\ LET s  == frame[g].streamID
         r  == frame[g].renditionID
         st == storeSegment(getOrCreateRenditionLocked(getOrCreateStreamLocked(streams, s), s, r),
                            s, r, frame[g].seg)
     IN  IF StreamEnded(st, s)
         THEN /\ streams' = st
              /\ frame' = Returned(g, ErrStreamEnded, "rejected")
              /\ mu' = Unlock
              /\ pc' = [pc EXCEPT ![g] = "ret"]
         ELSE /\ streams' = getOrCreateStreamLocked(streams, s)
              /\ pc' = [pc EXCEPT ![g] = "RS_Rendition"]
              /\ UNCHANGED <<frame, mu>>
  /\ UNCHANGED <<windowSize, windowSizeArg, metrics, calls, endReturned, endReturnedKnown,
                 accepted, outOfOrder>>

\* stream := r.getOrCreateStreamLocked(streamID); if stream.Ended { return ErrStreamEnded }
RS_Stream(g) ==
  /\ pc[g] = "RS_Stream"
  /\ LET s  == frame[g].streamID
         st == getOrCreateStreamLocked(streams, s)
     IN  /\ streams' = st
         /\ IF StreamEnded(st, s)
            THEN /\ frame' = Returned(g, ErrStreamEnded, "rejected")
                 /\ mu' = Unlock
                 /\ pc' = [pc EXCEPT ![g] = "ret"]
            ELSE /\ pc' = [pc EXCEPT ![g] = "RS_Rendition"]
                 /\ UNCHANGED <<frame, mu>>
  /\ UNCHANGED <<windowSize, windowSizeArg, metrics, calls, endReturned, endReturnedKnown,
                 accepted, outOfOrder>>

\* rendition := r.getOrCreateRenditionLocked(stream, renditionID);
\* if rendition.Ended { return ErrRenditionEnded }
RS_Rendition(g) ==
  /\ pc[g] = "RS_Rendition"
  /\ LET s  == frame[g].streamID
         r  == frame[g].renditionID
         st == getOrCreateRenditionLocked(streams, s, r)
     IN  /\ streams' = st
         /\ IF RenditionEnded(st, s, r)
            THEN /\ frame' = Returned(g, ErrRenditionEnded, "rejected")
                 /\ mu' = Unlock
                 /\ pc' = [pc EXCEPT ![g] = "ret"]
            ELSE /\ pc' = [pc EXCEPT ![g] = "RS_Store"]
                 /\ UNCHANGED <<frame, mu>>
  /\ UNCHANGED <<windowSize, windowSizeArg, metrics, calls, endReturned, endReturnedKnown,
                 accepted, outOfOrder>>

\* the duplicate test, the write of rendition.Segments[seg.Sequence], return nil
RS_Store(g) ==
  /\ pc[g] = "RS_Store"
  /\ LET s   == frame[g].streamID
         r   == frame[g].renditionID
         seg == frame[g].seg
         dup == SegmentExists(streams, s, r, seg)
     IN  /\ streams' = storeSegment(streams, s, r, seg)
         /\ frame' = Returned(g, Nil, IF dup THEN "duplicate" ELSE "stored")
         /\ accepted' = IF dup THEN accepted ELSE accepted \cup {<<s, r, seg>>}
         /\ outOfOrder' =
              IF ~dup /\ \E q \in DOMAIN streams[s].Renditions[r].Segments : q > seg.Sequence
              THEN outOfOrder \cup {<<s, r>>} ELSE outOfOrder
  /\ mu' = Unlock
  /\ pc' = [pc EXCEPT ![g] = "ret"]
  /\ UNCHANGED <<windowSize, windowSizeArg, metrics, calls, endReturned, endReturnedKnown>>

\* ------------------------------------------------------------------ EndStream

\* Service.EndStream(s) is called; r.mu.Lock()
ES_Lock(g) ==
  /\ CanCall(g)
  /\ CanLock
  /\ \E s \in StreamIDs :
       frame' = [frame EXCEPT ![g] = NewFrame("EndStream", s, "", NoSegment)]
  /\ mu' = Lock(g)
  /\ pc' = [pc EXCEPT ![g] = "ES_Get"]
  /\ calls' = calls + 1
  /\ UNCHANGED <<streams, windowSize, windowSizeArg, metrics, endReturned, endReturnedKnown,
                 accepted, outOfOrder>>

\* EndStream looking the stream up with get-or-create: an unknown stream is
\* created and ended
ES_GetOrCreate(g) ==
  /\ pc[g] = "ES_Get"
  /\ LET s  == frame[g].streamID
         st == getOrCreateStreamLocked(streams, s)
     IN  IF StreamEnded(st, s)
         THEN /\ frame' = Returned(g, Nil, "already ended")
              /\ mu' = Unlock
              /\ pc' = [pc EXCEPT ![g] = "ret"]
              /\ endReturned' = endReturned \cup {s}
              /\ endReturnedKnown' = endReturnedKnown \cup {s}
              /\ UNCHANGED streams
         ELSE /\ streams' = markStreamEnded(st, s)
              /\ frame' = [frame EXCEPT ![g].todo = DOMAIN st[s].Renditions]
              /\ pc' = [pc EXCEPT ![g] = "ES_Cascade"]
              /\ UNCHANGED <<mu, endReturned, endReturnedKnown>>
  /\ UNCHANGED <<windowSize, windowSizeArg, metrics, calls, accepted, outOfOrder>>

\* EndStream returning from its no-op paths without releasing the lock
ES_GetKeepsLock(g) ==
  /\ pc[g] = "ES_Get"
  /\ LET s == frame[g].streamID
     IN  IF ~StreamExists(streams, s) \/ StreamEnded(streams, s)
         THEN /\ frame' = Returned(g, Nil, "unknown")
              /\ pc' = [pc EXCEPT ![g] = "ret"]
              /\ endReturned' = endReturned \cup {s}
              /\ UNCHANGED <<streams, mu, endReturnedKnown>>
         ELSE /\ streams' = markStreamEnded(streams, s)
              /\ frame' = [frame EXCEPT ![g].todo = DOMAIN streams[s].Renditions]
              /\ pc' = [pc EXCEPT ![g] = "ES_Cascade"]
              /\ UNCHANGED <<mu, endReturned, endReturnedKnown>>
  /\ UNCHANGED <<windowSize, windowSizeArg, metrics, calls, accepted, outOfOrder>>

\* stream, exists := r.store.GetStream(streamID); the two no-op returns;
\* stream.Ended = true
ES_Get(g) ==
  /\ pc[g] = "ES_Get"
  /\ LET s == frame[g].streamID
     IN  IF ~StreamExists(streams, s)
         THEN /\ frame' = Returned(g, Nil, "unknown")
              /\ mu' = Unlock
              /\ pc' = [pc EXCEPT ![g] = "ret"]
              /\ endReturned' = endReturned \cup {s}
              /\ UNCHANGED <<streams, endReturnedKnown>>
         ELSE IF StreamEnded(streams, s)
         THEN /\ frame' = Returned(g, Nil, "already ended")
              /\ mu' = Unlock
              /\ pc' = [pc EXCEPT ![g] = "ret"]
              /\ endReturned' = endReturned \cup {s}
              /\ endReturnedKnown' = endReturnedKnown \cup {s}
              /\ UNCHANGED streams
         ELSE /\ streams' = markStreamEnded(streams, s)
              /\ frame' = [frame EXCEPT ![g].todo = DOMAIN streams[s].Renditions]
              /\ pc' = [pc EXCEPT ![g] = "ES_Cascade"]
              /\ UNCHANGED <<mu, endReturned, endReturnedKnown>>
  /\ UNCHANGED <<windowSize, windowSizeArg, metrics, calls, accepted, outOfOrder>>

\* for _, rendition := range stream.Renditions { rendition.Ended = true }; return nil
ES_Cascade(g) ==
  /\ pc[g] = "ES_Cascade"
  /\ LET s == frame[g].streamID
     IN  IF frame[g].todo = {}
         THEN /\ frame' = Returned(g, Nil, "ended")
              /\ mu' = Unlock
              /\ pc' = [pc EXCEPT ![g] = "ret"]
              /\ endReturned' = endReturned \cup {s}
              /\ endReturnedKnown' = endReturnedKnown \cup {s}
              /\ UNCHANGED streams
         ELSE /\ \E r \in frame[g].todo :
                   /\ streams' = markRenditionEnded(streams, s, r)
                   /\ frame' = [frame EXCEPT ![g].todo = @ \ {r}]
              /\ UNCHANGED <<mu, pc, endReturned, endReturnedKnown>>
  /\ UNCHANGED <<windowSize, windowSizeArg, metrics, calls, accepted, outOfOrder>>

\* ---------------------------------------------------------------- GetPlaylist

\* history: some goroutine's last call was a GetPlaylist that returned a
\* playlist of a rendition of s with ended = true
SeenEnded(s) ==
  \E h \in Goroutines :
    /\ pc[h] = "ret" /\ frame[h].op = "GetPlaylist" /\ frame[h].streamID = s
    /\ frame[h].ret.ok /\ frame[h].ret.ended

\* Service.GetPlaylist(s, r) is called; r.mu.RLock() in GetRenditionSnapshot
GP_RLock(g) ==
  /\ CanCall(g)
  /\ CanRLock
  /\ \E s \in StreamIDs, r \in RenditionIDs :
       frame' = [frame EXCEPT ![g] = [NewFrame("GetPlaylist", s, r, NoSegment)
                                       EXCEPT !.afterSeenEnded = SeenEnded(s)]]
  /\ mu' = RLock(g)
  /\ pc' = [pc EXCEPT ![g] = "GP_Snapshot"]
  /\ calls' = calls + 1
  /\ UNCHANGED <<streams, windowSize, windowSizeArg, metrics, endReturned, endReturnedKnown,
                 accepted, outOfOrder>>

\* the map iteration orders GetRenditionSnapshot may see for (s, r)
SnapshotOrders(st, s, r) ==
  IF StreamExists(st, s) /\ r \in DOMAIN st[s].Renditions
  THEN MapOrders(st[s].Renditions[r].Segments)
  ELSE {<<>>}

\* a Service.GetPlaylist that selects the window with contiguousSlidingWindow
GetPlaylistSlidingWindow(snap, ws) ==
  IF ~snap.ok
  THEN [NoRet EXCEPT !.ok = FALSE, !.outcome = "not found"]
  ELSE LET window == contiguousSlidingWindow(snap.segments, ws)
       IN  [NoRet EXCEPT !.ok = TRUE, !.ended = snap.ended,
                         !.segments = snap.segments, !.window = window,
                         !.m3u8 = BuildLivePlaylist(window, snap.ended),
                         !.outcome = "found"]

\* Service.GetPlaylist: what it returns from the snapshot snap
GetPlaylist(snap, ws) ==
  IF ~snap.ok
  THEN [NoRet EXCEPT !.ok = FALSE, !.outcome = "not found"]
  ELSE LET window == contiguousVisibleSegments(snap.segments, ws)
       IN  [NoRet EXCEPT !.ok = TRUE, !.ended = snap.ended,
                         !.segments = snap.segments, !.window = window,
                         !.m3u8 = BuildLivePlaylist(window, snap.ended),
                         !.outcome = "found"]

\* a snapshot that looks its stream up with getOrCreateStreamLocked
GP_SnapshotCreates(g) ==
  /\ pc[g] = "GP_Snapshot"
  /\ LET s  == frame[g].streamID
         st == getOrCreateStreamLocked(streams, s)
     IN  /\ streams' = st
         /\ \E order \in SnapshotOrders(st, s, frame[g].renditionID) :
              LET snap == GetRenditionSnapshot(st, s, frame[g].renditionID, order)
              IN  frame' = [frame EXCEPT ![g].ret =
                              [GetPlaylist(snap, windowSize) EXCEPT
                                 !.streamEnded = st[s].Ended]]
  /\ mu' = RUnlock(g)
  /\ pc' = [pc EXCEPT ![g] = "ret"]
  /\ UNCHANGED <<windowSize, windowSizeArg, metrics, calls, endReturned,
                 endReturnedKnown, accepted, outOfOrder>>

\* the snapshot read and RUnlock, then the window and the playlist text
GP_Snapshot(g) ==
  /\ pc[g] = "GP_Snapshot"
  /\ \E order \in SnapshotOrders(streams, frame[g].streamID, frame[g].renditionID) :
       LET snap == GetRenditionSnapshot(streams, frame[g].streamID,
                                        frame[g].renditionID, order)
           s    == frame[g].streamID
       IN  frame' = [frame EXCEPT ![g].ret =
                       [GetPlaylist(snap, windowSize) EXCEPT
                          !.streamEnded = StreamExists(streams, s) /\ streams[s].Ended]]
  /\ mu' = RUnlock(g)
  /\ pc' = [pc EXCEPT ![g] = "ret"]
  /\ UNCHANGED <<streams, windowSize, windowSizeArg, metrics, calls, endReturned,
                 endReturnedKnown, accepted, outOfOrder>>

\* ---------------------------------------------------------- ActiveStreamCount

\* repo.ActiveStreamCount() is called; r.mu.RLock()
AC_RLock(g) ==
  /\ CanCall(g)
  /\ CanRLock
  /\ frame' = [frame EXCEPT ![g] = NewFrame("ActiveStreamCount", "", "", NoSegment)]
  /\ mu' = RLock(g)
  /\ pc' = [pc EXCEPT ![g] = "AC_Count"]
  /\ calls' = calls + 1
  /\ UNCHANGED <<streams, windowSize, windowSizeArg, metrics, endReturned, endReturnedKnown,
                 accepted, outOfOrder>>

\* the count and RUnlock
AC_Count(g) ==
  /\ pc[g] = "AC_Count"
  /\ frame' = [frame EXCEPT ![g].ret = [NoRet EXCEPT !.n = ActiveStreamCount(streams),
                                                    !.outcome = "counted"]]
  /\ mu' = RUnlock(g)
  /\ pc' = [pc EXCEPT ![g] = "ret"]
  /\ UNCHANGED <<streams, windowSize, windowSizeArg, metrics, calls, endReturned,
                 endReturnedKnown, accepted, outOfOrder>>

\* ------------------------------------------------------------ specification

Next ==
  \E g \in Goroutines :
    \/ RS_Lock(g)
    \/ RS_Stream(g)
    \/ RS_Rendition(g)
    \/ RS_Store(g)
    \/ ES_Lock(g)
    \/ ES_Get(g)
    \/ ES_Cascade(g)
    \/ GP_RLock(g)
    \/ GP_Snapshot(g)
    \/ AC_RLock(g)
    \/ AC_Count(g)

Spec == Init /\ [][Next]_vars

\* ------------------------------------------------------------------ claims

\* the goroutines whose GetPlaylist call has returned a playlist (ok = true)
ReturnedPlaylist(g) ==
  pc[g] = "ret" /\ frame[g].op = "GetPlaylist" /\ frame[g].ret.ok

\* the goroutines whose RegisterSegment call has returned
ReturnedRegister(g) == pc[g] = "ret" /\ frame[g].op = "RegisterSegment"

\* the goroutines whose EndStream call has returned
ReturnedEndStream(g) == pc[g] = "ret" /\ frame[g].op = "EndStream"

\* a list of segments skips a sequence number somewhere
HasGap(segs) == \E i \in 2..Len(segs) : segs[i].Sequence # segs[i - 1].Sequence + 1

\* the #EXTINF lines of a playlist text
ExtInfLines(m3u8) == { i \in DOMAIN m3u8 : m3u8[i][1] = "#EXTINF:" }

\* C1 (no-gap): in every playlist GetPlaylist returns, the listed segments
\* (one #EXTINF entry each, starting at EXT-X-MEDIA-SEQUENCE) have each
\* segment's sequence equal to the previous listed segment's sequence + 1,
\* whatever was registered, in whatever order, and for every window size.
C1_NoGap ==
  \A g \in Goroutines :
    ReturnedPlaylist(g) =>
      LET window == frame[g].ret.window
          m3u8   == frame[g].ret.m3u8
      IN  /\ \A i \in 2..Len(window) :
               window[i].Sequence = window[i - 1].Sequence + 1
          /\ Cardinality(ExtInfLines(m3u8)) = Len(window)
          /\ Len(window) > 0 => m3u8[4] = MediaSequenceLine(window[1].Sequence)

\* C1 witness: a playlist was returned for a rendition whose registered
\* sequences have a hole (1, 2, 4), and it lists two adjacent segments.
C1_Witness ==
  \E g \in Goroutines :
    /\ ReturnedPlaylist(g)
    /\ HasGap(frame[g].ret.segments)
    /\ Len(frame[g].ret.window) = 2
    /\ Len(frame[g].ret.segments) = 3

\* C2 (bounded window): a playlist returned by GetPlaylist never lists more
\* segments than the Service's window size.
C2_BoundedWindow ==
  \A g \in Goroutines :
    ReturnedPlaylist(g) =>
      /\ Len(frame[g].ret.window) <= windowSize
      /\ Cardinality(ExtInfLines(frame[g].ret.m3u8)) <= windowSize

\* C2 witness: the rendition held more segments than the window size and the
\* playlist lists exactly window-size of them.
C2_Witness ==
  \E g \in Goroutines :
    /\ ReturnedPlaylist(g)
    /\ Len(frame[g].ret.segments) > windowSize
    /\ Len(frame[g].ret.window) = windowSize

\* the segment stored under sequence q of rendition r of stream s
Stored(s, r, q) == streams[s].Renditions[r].Segments[q]

\* the registrations of rendition r of stream s that were stored as new
AcceptedOn(s, r) == { a[3] : a \in { b \in accepted : b[1] = s /\ b[2] = r } }

\* a list of segments is strictly ascending by sequence
StrictlyAscending(segs) ==
  \A i \in 2..Len(segs) : segs[i - 1].Sequence < segs[i].Sequence

\* C3 (idempotent duplicate, first write wins): a RegisterSegment whose
\* sequence is already stored for its stream and rendition returns nil and
\* leaves the registry as it was (same segment count, same duration and path),
\* and every stored segment is always the one first registered under its
\* sequence, whatever later calls carried.
C3_IdempotentDuplicate ==
  /\ [][\A g \in Goroutines :
          (pc[g] = "RS_Store"
             /\ SegmentExists(streams, frame[g].streamID, frame[g].renditionID, frame[g].seg))
          => /\ pc'[g] = "ret"
             /\ frame'[g].ret.err = Nil
             /\ streams' = streams]_vars
  /\ [](\A a \in accepted :
          /\ StreamExists(streams, a[1])
          /\ a[2] \in DOMAIN streams[a[1]].Renditions
          /\ a[3].Sequence \in DOMAIN streams[a[1]].Renditions[a[2]].Segments
          /\ Stored(a[1], a[2], a[3].Sequence) = a[3])

\* C3 witness: a registration of an already stored sequence, carrying another
\* duration and path than the stored segment, has returned nil.
C3_Witness ==
  \E g \in Goroutines :
    /\ ReturnedRegister(g)
    /\ frame[g].ret.outcome = "duplicate"
    /\ frame[g].ret.err = Nil
    /\ Stored(frame[g].streamID, frame[g].renditionID, frame[g].seg.Sequence).Duration
         # frame[g].seg.Duration
    /\ Stored(frame[g].streamID, frame[g].renditionID, frame[g].seg.Sequence).Path
         # frame[g].seg.Path

\* C4 (out-of-order convergence): the snapshot a GetPlaylist call takes of a
\* rendition is strictly ascending by sequence and holds exactly the segments
\* that were stored for it, so it depends on the set registered and not on
\* the order of registration.
C4_OutOfOrderConvergence ==
  [][\A g \in Goroutines :
       (pc[g] = "GP_Snapshot" /\ pc'[g] = "ret" /\ frame'[g].ret.ok)
       => LET segs == frame'[g].ret.segments
          IN  /\ StrictlyAscending(segs)
              /\ { segs[i] : i \in 1..Len(segs) }
                   = AcceptedOn(frame[g].streamID, frame[g].renditionID)]_vars

\* C4 witness: three segments were stored, not in ascending order, and the
\* fourth call returned a snapshot of all three.
C4_Witness ==
  \E g \in Goroutines :
    /\ ReturnedPlaylist(g)
    /\ calls = 4
    /\ Len(frame[g].ret.segments) = 3
    /\ <<frame[g].streamID, frame[g].renditionID>> \in outOfOrder

\* C5 as claimed: once any EndStream(s) call has returned, every later
\* RegisterSegment call for s fails with ErrStreamEnded.
C5_AfterAnyEndStream ==
  \A g \in Goroutines :
    (ReturnedRegister(g) /\ frame[g].afterEnd) => frame[g].ret.err = ErrStreamEnded

\* C5 (monotonic end), amended: once an EndStream(s) call that found s in the
\* registry has returned, every later RegisterSegment call for s fails with
\* ErrStreamEnded.
C5_MonotonicEnd ==
  \A g \in Goroutines :
    (ReturnedRegister(g) /\ frame[g].afterEndKnown) => frame[g].ret.err = ErrStreamEnded

\* C5 witness: a RegisterSegment called after EndStream had ended its stream
\* returned ErrStreamEnded.
C5_Witness ==
  \E g \in Goroutines :
    /\ ReturnedRegister(g)
    /\ frame[g].afterEndKnown
    /\ frame[g].ret.err = ErrStreamEnded

\* C6 (a rejected registration changes nothing): a RegisterSegment on a
\* stream that EndStream has ended (the stream was in the registry) returns
\* ErrStreamEnded at its first test and leaves the registry unchanged: no
\* segment is added and no rendition created, for any rendition and sequence.
C6_RejectedChangesNothing ==
  [][\A g \in Goroutines :
       (pc[g] = "RS_Stream" /\ frame[g].afterEndKnown)
       => /\ streams' = streams
          /\ pc'[g] = "ret"
          /\ frame'[g].ret.err = ErrStreamEnded]_vars

\* C6 witness: a registration for a rendition the ended stream never had was
\* rejected, and the rendition is still not in the registry.
C6_Witness ==
  \E g \in Goroutines :
    /\ ReturnedRegister(g)
    /\ frame[g].afterEndKnown
    /\ frame[g].ret.outcome = "rejected"
    /\ frame[g].renditionID \notin DOMAIN streams[frame[g].streamID].Renditions
    /\ DOMAIN streams[frame[g].streamID].Renditions # {}

\* C7 (ended is terminal): no step takes a stream's or a rendition's ended
\* flag from true back to false, or removes an ended stream or rendition.
C7_EndedIsTerminal ==
  [][\A s \in DOMAIN streams :
       /\ streams[s].Ended => (s \in DOMAIN streams' /\ streams'[s].Ended)
       /\ \A r \in DOMAIN streams[s].Renditions :
            streams[s].Renditions[r].Ended
            => /\ s \in DOMAIN streams'
               /\ r \in DOMAIN streams'[s].Renditions
               /\ streams'[s].Renditions[r].Ended]_vars

\* C7 witness: a stream and its rendition are ended, and since then a
\* RegisterSegment and a second EndStream on that stream have both returned.
C7_Witness ==
  \E g, h \in Goroutines :
    /\ ReturnedRegister(g) /\ frame[g].afterEndKnown
    /\ ReturnedEndStream(h) /\ frame[h].afterEndKnown
    /\ frame[h].streamID = frame[g].streamID
    /\ streams[frame[g].streamID].Ended
    /\ \E r \in DOMAIN streams[frame[g].streamID].Renditions :
         streams[frame[g].streamID].Renditions[r].Ended

\* a stream's ended flag is set and so is the flag of each of its renditions
Cascaded(s) ==
  streams[s].Ended => \A r \in DOMAIN streams[s].Renditions : streams[s].Renditions[r].Ended

\* C8 (cascade): whenever no writer holds the registry lock, every stream
\* whose ended flag is true has ended = true on each of its renditions.
C8_Cascade == mu.writer = NoOne => \A s \in DOMAIN streams : Cascaded(s)

\* C8 witness: the lock is free, an ended stream has two renditions, both
\* ended, and a further RegisterSegment on it has been rejected.
C8_Witness ==
  /\ mu.writer = NoOne
  /\ \E s \in DOMAIN streams :
       /\ streams[s].Ended
       /\ Cardinality(DOMAIN streams[s].Renditions) = 2
       /\ \E g \in Goroutines :
            ReturnedRegister(g) /\ frame[g].streamID = s /\ frame[g].ret.outcome = "rejected"

\* C9 (EndStream is a no-op on unknown or ended streams): an EndStream that
\* finds its stream unknown or already ended returns nil and leaves the
\* registry unchanged; ActiveStreamCount is the same, and an unknown stream
\* is still unknown (every snapshot of it is not-found).
C9_EndStreamNoOp ==
  [][\A g \in Goroutines :
       (pc[g] = "ES_Get"
          /\ (~StreamExists(streams, frame[g].streamID)
                \/ streams[frame[g].streamID].Ended))
       => /\ streams' = streams
          /\ pc'[g] = "ret"
          /\ frame'[g].ret.err = Nil
          /\ ActiveStreamCount(streams') = ActiveStreamCount(streams)
          /\ ~StreamExists(streams, frame[g].streamID)
               => \A r \in RenditionIDs :
                    ~GetRenditionSnapshot(streams', frame[g].streamID, r, <<>>).ok]_vars

\* C9 witness: one EndStream has returned for a stream the registry does not
\* know, another for a stream that was already ended.
C9_Witness ==
  \E g, h \in Goroutines :
    /\ ReturnedEndStream(g) /\ frame[g].ret.outcome = "unknown"
    /\ ~StreamExists(streams, frame[g].streamID)
    /\ ReturnedEndStream(h) /\ frame[h].ret.outcome = "already ended"
    /\ frame[g].ret.err = Nil /\ frame[h].ret.err = Nil

\* the playlist text has an #EXT-X-ENDLIST line
HasEndList(m3u8) == \E i \in DOMAIN m3u8 : m3u8[i] = ENDLIST

\* C10 (end marker): a playlist returned by GetPlaylist has #EXT-X-ENDLIST
\* (as its last line) exactly when the snapshot reported the rendition ended;
\* a GetPlaylist called after EndStream has ended the stream always has it,
\* and a playlist of a stream not ended at the snapshot never has it.
C10_EndMarker ==
  \A g \in Goroutines :
    ReturnedPlaylist(g) =>
      LET m3u8 == frame[g].ret.m3u8
      IN  /\ HasEndList(m3u8) <=> frame[g].ret.ended
          /\ HasEndList(m3u8) => m3u8[Len(m3u8)] = ENDLIST
          /\ frame[g].afterEndKnown => HasEndList(m3u8)
          /\ ~frame[g].ret.streamEnded => ~HasEndList(m3u8)

\* C10 witness: for one rendition, a playlist taken before EndStream has no
\* end marker and one taken after EndStream returned has it.
C10_Witness ==
  \E g, h \in Goroutines :
    /\ ReturnedPlaylist(g) /\ ReturnedPlaylist(h)
    /\ frame[g].streamID = frame[h].streamID
    /\ frame[g].renditionID = frame[h].renditionID
    /\ ~frame[g].afterEndKnown /\ ~HasEndList(frame[g].ret.m3u8)
    /\ frame[h].afterEndKnown /\ HasEndList(frame[h].ret.m3u8)

\* GetRenditionSnapshot(s, r) would report found in the current registry
Found(s, r) == GetRenditionSnapshot(streams, s, r, <<>>).ok

\* C11 (found exactly after an accepted registration): a GetPlaylist(s, r)
\* reports found if and only if a RegisterSegment(s, r, .) has returned
\* success before its snapshot; and whenever no writer holds the lock the
\* pairs a snapshot would find are exactly the pairs with an accepted
\* registration, so no rejected registration, EndStream or read makes a pair
\* found, and a known stream is not-found for a rendition never registered.
C11_FoundIffRegistered ==
  /\ [][\A g \in Goroutines :
          (pc[g] = "GP_Snapshot" /\ pc'[g] = "ret")
          => (frame'[g].ret.ok
                <=> AcceptedOn(frame[g].streamID, frame[g].renditionID) # {})]_vars
  /\ [](mu.writer = NoOne
          => \A s \in StreamIDs, r \in RenditionIDs :
               Found(s, r) <=> AcceptedOn(s, r) # {})

\* C11 witness: one stream is found for the rendition it has a registration
\* for and not-found for its other rendition.
C11_Witness ==
  \E g, h \in Goroutines :
    /\ ReturnedPlaylist(g)
    /\ pc[h] = "ret" /\ frame[h].op = "GetPlaylist" /\ ~frame[h].ret.ok
    /\ frame[g].streamID = frame[h].streamID
    /\ frame[g].renditionID # frame[h].renditionID

\* C18 as claimed: every snapshot that starts after any EndStream(s) call has
\* returned reports ended.
C18_EndedAfterAnyEndStream ==
  \A g \in Goroutines :
    (ReturnedPlaylist(g) /\ frame[g].afterEnd) => frame[g].ret.ended

\* C18 (consistent end as seen by readers), amended: a snapshot of a found
\* rendition of s reports ended exactly when the stream's ended flag was set
\* at the snapshot (no torn StreamState); it reports ended when it starts
\* after a snapshot of a rendition of s has reported ended; and it reports
\* ended when it starts after an EndStream(s) that found s in the registry
\* has returned.
C18_ConsistentEnd ==
  \A g \in Goroutines :
    ReturnedPlaylist(g) =>
      /\ frame[g].ret.streamEnded <=> frame[g].ret.ended
      /\ frame[g].afterSeenEnded => frame[g].ret.ended
      /\ frame[g].afterEndKnown => frame[g].ret.ended

\* C18 witness: a playlist that reported ended was returned, and a GetPlaylist
\* on the same stream called after it, and after EndStream returned, reported
\* ended too.
C18_Witness ==
  \E g, h \in Goroutines :
    /\ g # h
    /\ ReturnedPlaylist(g) /\ ReturnedPlaylist(h)
    /\ frame[g].streamID = frame[h].streamID
    /\ frame[h].ret.ended
    /\ frame[g].afterSeenEnded /\ frame[g].afterEndKnown
    /\ frame[g].ret.ended

\* the number of known streams of registry st whose ended flag is false
KnownNotEnded(st) == Cardinality({ s \in DOMAIN st : ~st[s].Ended })

\* this step is a RegisterSegment creating a stream the registry did not know
CreatesStream ==
  \E g \in Goroutines :
    pc[g] = "RS_Stream" /\ pc'[g] # "RS_Stream" /\ ~StreamExists(streams, frame[g].streamID)

\* this step is an EndStream setting the ended flag of a known, active stream
EndsActiveStream ==
  \E g \in Goroutines :
    /\ pc[g] = "ES_Get" /\ pc'[g] # "ES_Get"
    /\ StreamExists(streams, frame[g].streamID)
    /\ ~streams[frame[g].streamID].Ended

\* C19 (active stream count): ActiveStreamCount returns the number of known
\* streams whose ended flag is false; that number rises by exactly 1 in the
\* step of a RegisterSegment that creates a stream, falls by exactly 1 in the
\* step of an EndStream that ends an active stream, and no other step
\* (duplicate or rejected registration, repeated or unknown-stream EndStream,
\* read) changes it.
C19_ActiveStreamCount ==
  [][/\ \A g \in Goroutines :
          (pc[g] = "AC_Count" /\ pc'[g] = "ret")
          => frame'[g].ret.n = KnownNotEnded(streams)
     /\ KnownNotEnded(streams') - KnownNotEnded(streams) =
          IF CreatesStream THEN 1 ELSE IF EndsActiveStream THEN -1 ELSE 0]_vars

\* C19 witness: two streams are known, one of them ended, and
\* ActiveStreamCount has returned 1.
C19_Witness ==
  \E g \in Goroutines :
    /\ pc[g] = "ret" /\ frame[g].op = "ActiveStreamCount"
    /\ frame[g].ret.n = 1
    /\ Cardinality(DOMAIN streams) = 2
    /\ \E s \in DOMAIN streams : streams[s].Ended

\* g is between Lock and Unlock of RegisterSegment or EndStream
WriterInside(g) == pc[g] \in {"RS_Stream", "RS_Rendition", "RS_Store", "ES_Get", "ES_Cascade"}

\* g is between RLock and RUnlock of GetRenditionSnapshot or ActiveStreamCount
ReaderInside(g) == pc[g] \in {"GP_Snapshot", "AC_Count"}

\* C23 (lock discipline): at most one writer is inside the critical section
\* and it holds the exclusive lock; no reader is inside together with a
\* writer; every reader inside holds the shared lock; and every step that
\* reads or writes the store or a stream's or rendition's fields is taken by
\* a goroutine holding the lock, every write by the holder of the exclusive
\* lock.
C23_LockDiscipline ==
  /\ [](/\ Cardinality({ g \in Goroutines : WriterInside(g) }) <= 1
        /\ \A g \in Goroutines : WriterInside(g) <=> mu.writer = g
        /\ \A g \in Goroutines : ReaderInside(g) <=> g \in mu.readers
        /\ ~(\E g, h \in Goroutines : WriterInside(g) /\ ReaderInside(h)))
  /\ [][/\ streams' # streams
            => \E g \in Goroutines :
                 /\ WriterInside(g) /\ mu.writer = g
                 /\ \A h \in Goroutines \ {g} : pc'[h] = pc[h] /\ frame'[h] = frame[h]
        /\ \A g \in Goroutines :
             (frame'[g].ret # frame[g].ret /\ frame'[g].ret # NoRet)
             => (mu.writer = g \/ g \in mu.readers)]_vars

\* C23 witness: two readers are inside the critical section at once, a
\* GetRenditionSnapshot and an ActiveStreamCount, on a registry that holds a
\* stream.
C23_Witness ==
  /\ mu.readers = Goroutines
  /\ \E g, h \in Goroutines : pc[g] = "GP_Snapshot" /\ pc[h] = "AC_Count"
  /\ DOMAIN streams # {}

\* the store keeps everything it held: every stream, rendition and segment of
\* st is in st2 with the same duration and path
Keeps(st, st2) ==
  \A s \in DOMAIN st :
    /\ s \in DOMAIN st2
    /\ \A r \in DOMAIN st[s].Renditions :
         /\ r \in DOMAIN st2[s].Renditions
         /\ \A q \in DOMAIN st[s].Renditions[r].Segments :
              /\ q \in DOMAIN st2[s].Renditions[r].Segments
              /\ st2[s].Renditions[r].Segments[q] = st[s].Renditions[r].Segments[q]

\* C24 (no lost updates under concurrent registration): whatever the
\* interleaving of the goroutines' RegisterSegment calls, (a) a call on a
\* stream that is not ended when the call holds the lock returns nil and its
\* sequence is stored from then on, (b) the one StreamState and the one
\* RenditionState of an id are never replaced, so no step loses a stream, a
\* rendition or a stored segment, and (c) every stored segment sits under its
\* own sequence and carries the duration and path of a call that registered
\* that sequence on that rendition.
C24_NoLostUpdates ==
  /\ [](\A g \in Goroutines :
          ReturnedRegister(g)
          => LET s == frame[g].streamID
                 r == frame[g].renditionID
             IN  /\ StreamExists(streams, s)
                 /\ ~StreamEnded(streams, s) => frame[g].ret.err = Nil
                 /\ frame[g].ret.err = Nil
                    => /\ r \in DOMAIN streams[s].Renditions
                       /\ SegmentExists(streams, s, r, frame[g].seg))
  /\ [][streams' = streams \/ Keeps(streams, streams')]_vars
  /\ [](\A s \in DOMAIN streams : \A r \in DOMAIN streams[s].Renditions :
          \A q \in DOMAIN streams[s].Renditions[r].Segments :
            /\ Stored(s, r, q).Sequence = q
            /\ Stored(s, r, q) \in AcceptedOn(s, r))

\* C24 witness: the only two calls made are registrations by the two
\* goroutines on the same stream, not existing before, and rendition, carrying
\* the same sequence with different durations and paths; both returned nil and
\* one segment is stored.
C24_Witness ==
  /\ calls = 2
  /\ \A g \in Goroutines : ReturnedRegister(g) /\ frame[g].ret.err = Nil
  /\ \E g, h \in Goroutines :
       /\ frame[g].streamID = frame[h].streamID
       /\ frame[g].renditionID = frame[h].renditionID
       /\ frame[g].seg.Sequence = frame[h].seg.Sequence
       /\ frame[g].seg # frame[h].seg
       /\ Stored(frame[g].streamID, frame[g].renditionID, frame[g].seg.Sequence) = frame[g].seg
       /\ Cardinality(DOMAIN streams[frame[g].streamID].Renditions[frame[g].renditionID].Segments) = 1

\* the sequences stored for rendition r of stream s, none when it does not exist
StoredSequences(st, s, r) ==
  IF s \in DOMAIN st /\ r \in DOMAIN st[s].Renditions
  THEN DOMAIN st[s].Renditions[r].Segments ELSE {}

\* C25 as claimed: a RegisterSegment that returned ErrStreamEnded has its
\* segment in no snapshot, that is, its sequence is not stored for its
\* rendition.
C25_RejectedInNoSnapshot ==
  \A g \in Goroutines :
    (ReturnedRegister(g) /\ frame[g].ret.err = ErrStreamEnded)
    => frame[g].seg.Sequence
         \notin StoredSequences(streams, frame[g].streamID, frame[g].renditionID)

\* C25 (registration and end are all-or-nothing when they race), amended:
\* (a) a RegisterSegment that returns ErrStreamEnded does so in its first step
\* under the lock and leaves the registry exactly as it was, so its sequence is
\* in a snapshot only if another call stored it; (b) a call that got past the
\* stream.Ended test returns nil; (c) every snapshot taken after a
\* registration on its rendition returned nil contains that call's sequence;
\* (d) no segment is added to a rendition whose flag is set or of which a
\* returned snapshot has reported ended.
C25_AllOrNothing ==
  /\ [][\A g \in Goroutines :
          (frame[g].op = "RegisterSegment" /\ pc[g] # "ret" /\ pc'[g] = "ret")
          => \/ /\ frame'[g].ret.err = ErrStreamEnded
                /\ pc[g] = "RS_Stream"
                /\ streams' = streams
             \/ /\ frame'[g].ret.err = Nil
                /\ frame[g].seg.Sequence
                     \in StoredSequences(streams', frame[g].streamID, frame[g].renditionID)]_vars
  /\ [][\A h \in Goroutines :
          (pc[h] = "GP_Snapshot" /\ pc'[h] = "ret" /\ frame'[h].ret.ok)
          => \A g \in Goroutines :
               (/\ ReturnedRegister(g) /\ frame[g].ret.err = Nil
                /\ frame[g].streamID = frame[h].streamID
                /\ frame[g].renditionID = frame[h].renditionID)
               => \E i \in 1..Len(frame'[h].ret.segments) :
                    frame'[h].ret.segments[i].Sequence = frame[g].seg.Sequence]_vars
  /\ [][\A s \in DOMAIN streams : \A r \in DOMAIN streams[s].Renditions :
          (\/ RenditionEnded(streams, s, r)
           \/ \E h \in Goroutines :
                /\ ReturnedPlaylist(h) /\ frame[h].ret.ended
                /\ frame[h].streamID = s /\ frame[h].renditionID = r)
          => StoredSequences(streams', s, r) = StoredSequences(streams, s, r)]_vars

\* C25 witness: an EndStream that ended the stream and a RegisterSegment for
\* a sequence the stream's existing rendition does not hold have both returned,
\* the registration with ErrStreamEnded, and the sequence is not stored.
C25_Witness ==
  \E g, h \in Goroutines :
    /\ ReturnedRegister(g) /\ frame[g].ret.err = ErrStreamEnded
    /\ ReturnedEndStream(h) /\ frame[h].ret.outcome = "ended"
    /\ frame[h].streamID = frame[g].streamID
    /\ frame[g].renditionID \in DOMAIN streams[frame[g].streamID].Renditions
    /\ StoredSequences(streams, frame[g].streamID, frame[g].renditionID) # {}
    /\ frame[g].seg.Sequence
         \notin StoredSequences(streams, frame[g].streamID, frame[g].renditionID)

\* C29 (ErrRenditionEnded is unreachable): in every state, also in the middle
\* of EndStream's cascade, a rendition whose ended flag is set belongs to a
\* stream whose ended flag is set; so RegisterSegment never returns
\* ErrRenditionEnded, and every registration that is rejected returns
\* ErrStreamEnded.
C29_RenditionEndedUnreachable ==
  /\ \A s \in DOMAIN streams : \A r \in DOMAIN streams[s].Renditions :
       RenditionEnded(streams, s, r) => StreamEnded(streams, s)
  /\ \A g \in Goroutines :
       ReturnedRegister(g)
       => /\ frame[g].ret.err # ErrRenditionEnded
          /\ frame[g].ret.err # Nil => frame[g].ret.err = ErrStreamEnded

\* C29 witness: a registration on a rendition whose ended flag is set has
\* been rejected, with ErrStreamEnded.
C29_Witness ==
  \E g \in Goroutines :
    /\ ReturnedRegister(g)
    /\ frame[g].ret.err = ErrStreamEnded
    /\ frame[g].renditionID \in DOMAIN streams[frame[g].streamID].Renditions
    /\ RenditionEnded(streams, frame[g].streamID, frame[g].renditionID)

\* C30 (no empty containers): a stream without a rendition exists only while
\* the RegisterSegment call that created it holds the exclusive lock and is
\* about to create its rendition, and a rendition without a segment only while
\* the RegisterSegment call that created it holds the lock and is about to
\* store its segment; so in every state another call can observe, every
\* existing stream holds at least one rendition and every existing rendition
\* at least one segment, and a snapshot that reports found never returns zero
\* segments.
C30_NoEmptyContainers ==
  /\ \A s \in DOMAIN streams :
       /\ DOMAIN streams[s].Renditions = {}
          => \E g \in Goroutines :
               pc[g] = "RS_Rendition" /\ mu.writer = g /\ frame[g].streamID = s
       /\ \A r \in DOMAIN streams[s].Renditions :
            DOMAIN streams[s].Renditions[r].Segments = {}
            => \E g \in Goroutines :
                 /\ pc[g] = "RS_Store" /\ mu.writer = g
                 /\ frame[g].streamID = s /\ frame[g].renditionID = r
  /\ \A g \in Goroutines : ReturnedPlaylist(g) => Len(frame[g].ret.segments) > 0

\* C30 witness: a snapshot that reported found has returned segments, and a
\* registration for a new rendition of that stream, rejected because the
\* stream is ended, has left no rendition behind.
C30_Witness ==
  \E g, h \in Goroutines :
    /\ ReturnedPlaylist(g) /\ Len(frame[g].ret.segments) > 0
    /\ ReturnedRegister(h) /\ frame[h].ret.err = ErrStreamEnded
    /\ frame[h].streamID = frame[g].streamID
    /\ frame[h].renditionID \notin DOMAIN streams[frame[h].streamID].Renditions

\* C31 (nothing is ever deleted): across every step of every operation the
\* set of known streams, the set of renditions of each stream and the set of
\* sequences stored in each rendition only grow, and a stored segment keeps
\* its duration and path; so a pair that a snapshot would find is found in
\* every later state, and a pair that a returned GetPlaylist found is still
\* in the registry.
C31_NothingDeleted ==
  /\ [][\/ streams' = streams
        \/ /\ DOMAIN streams \subseteq DOMAIN streams'
           /\ \A s \in DOMAIN streams :
                \/ streams'[s] = streams[s]
                \/ /\ DOMAIN streams[s].Renditions \subseteq DOMAIN streams'[s].Renditions
                   /\ \A r \in DOMAIN streams[s].Renditions :
                        LET old == streams[s].Renditions[r].Segments
                            new == streams'[s].Renditions[r].Segments
                        IN  /\ DOMAIN old \subseteq DOMAIN new
                            /\ \A q \in DOMAIN old :
                                 /\ new[q].Duration = old[q].Duration
                                 /\ new[q].Path = old[q].Path]_vars
  /\ [](\A g \in Goroutines :
          ReturnedPlaylist(g)
          => /\ StreamExists(streams, frame[g].streamID)
             /\ frame[g].renditionID \in DOMAIN streams[frame[g].streamID].Renditions
             /\ \A i \in 1..Len(frame[g].ret.segments) :
                  frame[g].ret.segments[i].Sequence
                    \in StoredSequences(streams, frame[g].streamID, frame[g].renditionID))

\* C31 witness: after an EndStream that ended the stream, a GetPlaylist of one
\* of its renditions found it, ended, with its two segments.
C31_Witness ==
  \E g, h \in Goroutines :
    /\ ReturnedEndStream(h) /\ frame[h].ret.outcome = "ended"
    /\ ReturnedPlaylist(g) /\ frame[g].ret.ended
    /\ frame[g].streamID = frame[h].streamID
    /\ Len(frame[g].ret.segments) = 2

\* this step belongs to a read call of g: GetPlaylist (with its
\* GetRenditionSnapshot) or ActiveStreamCount
ReadStep(g) ==
  /\ frame'[g].op \in {"GetPlaylist", "ActiveStreamCount"}
  /\ pc'[g] # pc[g]

\* what the returned GetPlaylist of g saw is what the registry holds now for
\* its pair: no write to the pair has taken effect since
StillAsSeen(g) ==
  LET s == frame[g].streamID
      r == frame[g].renditionID
  IN  /\ frame[g].ret.ok = (StreamExists(streams, s) /\ r \in DOMAIN streams[s].Renditions)
      /\ frame[g].ret.ok
         => /\ { frame[g].ret.segments[i] : i \in 1..Len(frame[g].ret.segments) }
                 = { Stored(s, r, q) : q \in StoredSequences(streams, s, r) }
            /\ frame[g].ret.ended = RenditionEnded(streams, s, r)

\* C32 (reads do not change state): every step of a GetPlaylist, with its
\* GetRenditionSnapshot, and of an ActiveStreamCount leaves the registry as it
\* was, for known and unknown ids alike, creating no stream and no rendition;
\* and a GetPlaylist returns the same found flag and the same text as an
\* earlier GetPlaylist for the same pair when no write to the pair has taken
\* effect in between.
C32_ReadsDoNotChangeState ==
  /\ [][\A g \in Goroutines : ReadStep(g) => streams' = streams]_vars
  /\ [][\A h \in Goroutines :
          (pc[h] = "GP_Snapshot" /\ pc'[h] = "ret")
          => \A g \in Goroutines \ {h} :
               (/\ pc[g] = "ret" /\ frame[g].op = "GetPlaylist"
                /\ frame[g].streamID = frame[h].streamID
                /\ frame[g].renditionID = frame[h].renditionID
                /\ StillAsSeen(g))
               => /\ frame'[h].ret.ok = frame[g].ret.ok
                  /\ frame'[h].ret.m3u8 = frame[g].ret.m3u8]_vars

\* C32 witness: two GetPlaylist calls for the same pair, the only calls after
\* two registrations that were stored out of order, returned the same text
\* listing segments; and the registry holds that one stream only.
C32_Witness ==
  /\ calls = 4
  /\ \A g \in Goroutines : ReturnedPlaylist(g)
  /\ \E g, h \in Goroutines :
       /\ g # h
       /\ frame[g].streamID = frame[h].streamID
       /\ frame[g].renditionID = frame[h].renditionID
       /\ <<frame[g].streamID, frame[g].renditionID>> \in outOfOrder
       /\ frame[g].ret.m3u8 = frame[h].ret.m3u8
       /\ Len(frame[g].ret.window) = 2
       /\ DOMAIN streams = {frame[g].streamID}

\* this step is taken by g inside a RegisterSegment or EndStream call
WriteStep(g) ==
  /\ mu.writer = g
  /\ frame[g].op \in {"RegisterSegment", "EndStream"}
  /\ \A h \in Goroutines \ {g} : pc'[h] = pc[h] /\ frame'[h] = frame[h]

\* C36 (stream isolation): every step of a RegisterSegment or EndStream on
\* stream A leaves every other stream as it was (its renditions, segments and
\* ended flags) and creates no other stream; every step of a RegisterSegment
\* on rendition r of A leaves every other rendition of A as it was; and a
\* registration is rejected only when an EndStream of its own stream has
\* returned, so ending A never causes a registration on B to be rejected.
C36_StreamIsolation ==
  /\ [][\A g \in Goroutines :
          (WriteStep(g) /\ streams' # streams)
          => LET A == frame[g].streamID
             IN  /\ DOMAIN streams' \subseteq DOMAIN streams \cup {A}
                 /\ \A B \in DOMAIN streams \ {A} : streams'[B] = streams[B]
                 /\ (frame[g].op = "RegisterSegment" /\ A \in DOMAIN streams)
                    => /\ streams'[A].Ended = streams[A].Ended
                       /\ \A r \in DOMAIN streams[A].Renditions \ {frame[g].renditionID} :
                            streams'[A].Renditions[r] = streams[A].Renditions[r]]_vars
  /\ [](\A g \in Goroutines :
          (ReturnedRegister(g) /\ frame[g].ret.err # Nil)
          => /\ frame[g].streamID \in endReturnedKnown
             /\ StreamEnded(streams, frame[g].streamID))

\* C36 witness: stream A was ended and holds its segment, ended; stream B is
\* not ended and a registration on it has returned nil with its segment
\* stored.
C36_Witness ==
  \E g, h \in Goroutines :
    /\ ReturnedEndStream(h) /\ frame[h].ret.outcome = "ended"
    /\ ReturnedRegister(g) /\ frame[g].ret.err = Nil /\ frame[g].ret.outcome = "stored"
    /\ frame[g].streamID # frame[h].streamID
    /\ StreamEnded(streams, frame[h].streamID)
    /\ ~StreamEnded(streams, frame[g].streamID)
    /\ \A r \in DOMAIN streams[frame[h].streamID].Renditions :
         RenditionEnded(streams, frame[h].streamID, r)

\* ------------------------------------------- the Service used by one client
\* One client calls the Service and waits for each call to return before it
\* makes the next, so each call runs from Lock to Unlock in one step.

\* the largest sequence number the client registers
MaxRun == 7

RunSeqs == 1..MaxRun

\* the windowSize arguments the sequential Service is constructed with
RunWindowSizeArgs == {-1, 0, 1, 3}

\* the client's goroutine
Client == "g1"

\* the stream and rendition the client works on
RunStream == "s1"

RunRendition == "720p"

\* InMemoryRepository.RegisterSegment, from Lock to Unlock: the registry
\* after the call, the error returned, and which return was taken
RegisterSegment(st, s, r, seg) ==
  LET st1 == getOrCreateStreamLocked(st, s)
  IN  IF StreamEnded(st1, s)
      THEN [streams |-> st1, err |-> ErrStreamEnded, outcome |-> "rejected"]
      ELSE LET st2 == getOrCreateRenditionLocked(st1, s, r)
           IN  IF RenditionEnded(st2, s, r)
               THEN [streams |-> st2, err |-> ErrRenditionEnded, outcome |-> "rejected"]
               ELSE [streams |-> storeSegment(st2, s, r, seg), err |-> Nil,
                     outcome |-> IF SegmentExists(st2, s, r, seg)
                                 THEN "duplicate" ELSE "stored"]

\* the loop over stream.Renditions of EndStream, run to its end
RECURSIVE cascade(_, _, _)
cascade(st, s, todo) ==
  IF todo = {} THEN st
  ELSE LET r == CHOOSE x \in todo : TRUE
       IN  cascade(markRenditionEnded(st, s, r), s, todo \ {r})

\* InMemoryRepository.EndStream, from Lock to Unlock: the registry after it
EndStream(st, s) ==
  IF ~StreamExists(st, s) THEN st
  ELSE IF StreamEnded(st, s) THEN st
  ELSE cascade(markStreamEnded(st, s), s, DOMAIN st[s].Renditions)

\* sequence numbers in descending order
RECURSIVE Descending(_)
Descending(S) ==
  IF S = {} THEN <<>>
  ELSE LET x == CHOOSE y \in S : \A z \in S : z <= y
       IN  <<x>> \o Descending(S \ {x})

\* two of the map iteration orders GetRenditionSnapshot may see for (s, r):
\* descending and ascending (the sorted copy is the same for each order)
RunSnapshotOrders(st, s, r) ==
  IF StreamExists(st, s) /\ r \in DOMAIN st[s].Renditions
  THEN LET d == Descending(DOMAIN st[s].Renditions[r].Segments)
       IN  {d, [i \in 1..Len(d) |-> d[Len(d) + 1 - i]]}
  ELSE {<<>>}

RunInit ==
  /\ streams = EmptyMap
  /\ mu = [writer |-> NoOne, readers |-> {}]
  /\ windowSizeArg \in RunWindowSizeArgs
  /\ windowSize = NewService(windowSizeArg)
  /\ metrics = NewMetrics
  /\ pc = [g \in Goroutines |-> "idle"]
  /\ frame = [g \in Goroutines |-> IdleFrame]
  /\ calls = 0
  /\ endReturned = {}
  /\ endReturnedKnown = {}
  /\ accepted = {}
  /\ outOfOrder = {}

\* svc.RegisterSegment(RunStream, RunRendition, seg) called and returned
Run_RegisterSegment ==
  /\ \E q \in RunSeqs :
       LET seg == Segment(q, PayloadA)
           res == RegisterSegment(streams, RunStream, RunRendition, seg)
       IN  /\ streams' = res.streams
           /\ frame' = [frame EXCEPT ![Client] =
                          [NewFrame("RegisterSegment", RunStream, RunRendition, seg)
                             EXCEPT !.ret = [NoRet EXCEPT !.err = res.err,
                                                          !.outcome = res.outcome]]]
  /\ pc' = [pc EXCEPT ![Client] = "ret"]
  /\ UNCHANGED <<mu, windowSize, windowSizeArg, metrics, calls, endReturned, endReturnedKnown,
                 accepted, outOfOrder>>



\* the sequence numbers registered for the client's rendition
Registered ==
  IF StreamExists(streams, RunStream) /\ RunRendition \in DOMAIN streams[RunStream].Renditions
  THEN DOMAIN streams[RunStream].Renditions[RunRendition].Segments
  ELSE {}

MinOf(S) == CHOOSE x \in S : \A y \in S : x <= y

MaxOf(S) == CHOOSE x \in S : \A y \in S : y <= x

\* the numbers between the smallest and the largest of S that S lacks
Missing(S) == IF S = {} THEN {} ELSE (MinOf(S)..MaxOf(S)) \ S

\* history: the sequence number m the client's last call stored, when m was
\* the one number missing between the smallest and largest registered; else 0
JustHealed ==
  IF /\ pc[Client] = "ret"
     /\ frame[Client].op = "RegisterSegment"
     /\ frame[Client].ret.outcome = "stored"
     /\ Missing(Registered \ {frame[Client].seg.Sequence}) = {frame[Client].seg.Sequence}
  THEN frame[Client].seg.Sequence
  ELSE 0

\* svc.GetPlaylist(RunStream, RunRendition) called and returned
Run_GetPlaylist ==
  /\ \E order \in RunSnapshotOrders(streams, RunStream, RunRendition) :
       LET snap == GetRenditionSnapshot(streams, RunStream, RunRendition, order)
       IN  frame' = [frame EXCEPT ![Client] =
                       [NewFrame("GetPlaylist", RunStream, RunRendition, NoSegment)
                          EXCEPT !.ret = GetPlaylist(snap, windowSize),
                                 !.healedSeq = JustHealed]]
  /\ pc' = [pc EXCEPT ![Client] = "ret"]
  /\ UNCHANGED <<streams, mu, windowSize, windowSizeArg, metrics, calls, endReturned,
                 endReturnedKnown,
                 accepted, outOfOrder>>

\* svc.EndStream(RunStream) called and returned
Run_EndStream ==
  /\ streams' = EndStream(streams, RunStream)
  /\ frame' = [frame EXCEPT ![Client] =
                 [NewFrame("EndStream", RunStream, "", NoSegment)
                    EXCEPT !.ret = [NoRet EXCEPT !.outcome = "returned"]]]
  /\ pc' = [pc EXCEPT ![Client] = "ret"]
  /\ UNCHANGED <<mu, windowSize, windowSizeArg, metrics, calls, endReturned, endReturnedKnown,
                 accepted, outOfOrder>>

RunNext == Run_RegisterSegment \/ Run_GetPlaylist \/ Run_EndStream

RunSpec == RunInit /\ [][RunNext]_vars

\* --------------------------------------------- claims on the window selector

Min(a, b) == IF a <= b THEN a ELSE b

\* the sequence numbers a list of segments carries, in its order
SequencesOf(segs) == [i \in 1..Len(segs) |-> segs[i].Sequence]

\* the client's last call was a GetPlaylist that returned a playlist
ClientPlaylist == ReturnedPlaylist(Client)

\* the k largest of the registered sequence numbers, ascending
LastRegistered(k) ==
  LET top == MaxOf(Registered) IN [i \in 1..k |-> top - k + i]

\* C12 (sliding over a gap-free rendition): when the registered sequences of
\* the rendition are one contiguous run of n numbers and the window size is w,
\* the playlist lists exactly the last min(n, w) of them, one #EXTINF each,
\* and EXT-X-MEDIA-SEQUENCE is the sequence of the first listed segment.
C12_SlidingGapFree ==
  (ClientPlaylist /\ Registered # {} /\ Missing(Registered) = {})
  => LET k      == Min(Cardinality(Registered), windowSize)
         window == frame[Client].ret.window
         m3u8   == frame[Client].ret.m3u8
     IN  /\ SequencesOf(window) = LastRegistered(k)
         /\ Cardinality(ExtInfLines(m3u8)) = k
         /\ m3u8[4] = MediaSequenceLine(MaxOf(Registered) - k + 1)

\* C12 witness: window size 3, sequences 1..6 registered, and the playlist
\* lists 4, 5, 6 with media sequence 4.
C12_Witness ==
  /\ ClientPlaylist
  /\ windowSize = 3
  /\ Registered = 1..6
  /\ SequencesOf(frame[Client].ret.window) = <<4, 5, 6>>
  /\ frame[Client].ret.m3u8[4] = MediaSequenceLine(4)

\* the registered sequence numbers above m
Above(m) == { q \in Registered : q > m }

\* the sequence numbers a playlist lists
Listed == { frame[Client].ret.window[i].Sequence : i \in 1..Len(frame[Client].ret.window) }

\* C13 as claimed: while m is missing from a rendition with segments below
\* and above m, no playlist lists a segment above m, for every window size
\* and every number of segments above m.
C13_HiddenBeyondAnyGap ==
  ClientPlaylist => \A m \in Missing(Registered) : \A q \in Listed : q < m

\* C13 (segments beyond a gap stay hidden), amended: while m is missing from
\* a rendition with segments below and above m, no playlist lists a segment
\* above m as long as fewer than window-size segments are registered above m;
\* once window-size or more are registered above m the candidate window
\* starts above m and the playlist lists only segments above m.
C13_HiddenBeyondGap ==
  ClientPlaylist
  => \A m \in Missing(Registered) :
       /\ Cardinality(Above(m)) < windowSize => \A q \in Listed : q < m
       /\ Cardinality(Above(m)) >= windowSize
            => (Listed # {} /\ \A q \in Listed : q > m)

\* C13 witness: 1, 2, 4, 5 are registered, 3 is missing, the window size is 6
\* and the playlist lists 1, 2 only.
C13_Witness ==
  /\ ClientPlaylist
  /\ windowSize = 6
  /\ Registered = {1, 2, 4, 5}
  /\ Listed = {1, 2}

\* C14 (self-healing): when the client's last call stored the sequence number
\* m that was the only one missing between the smallest and largest
\* registered, the GetPlaylist it calls next lists the last min(n, w) of all n
\* registered segments, all of them when n <= w.
C14_SelfHealing ==
  [][(JustHealed # 0 /\ frame'[Client].op = "GetPlaylist")
     => LET k == Min(Cardinality(Registered), windowSize)
        IN  /\ frame'[Client].ret.ok
            /\ SequencesOf(frame'[Client].ret.window) = LastRegistered(k)
            /\ Cardinality(ExtInfLines(frame'[Client].ret.m3u8)) = k]_vars

\* C14 witness: 3 was registered last into 1, 2, 4, 5 and the playlist called
\* next, with window size 6, lists all five segments.
C14_Witness ==
  /\ ClientPlaylist
  /\ frame[Client].healedSeq = 3
  /\ windowSize = 6
  /\ Registered = 1..5
  /\ Listed = 1..5

\* ------------------------------------------------- the renderer on its own
\* BuildLivePlaylist applied to lists of segments that need not come from a
\* window: any sequences, any order, durations of any sign.

\* the longest list rendered
MaxLen == 3

\* durations in tenths of a second: -0.5, 0.0, 1.1, 2.0, 2.5
RenderDurations == {-5, 0, 11, 20, 25}

RenderPaths == {"/a.ts", "/b.ts"}

RenderSequences == {2, 3}

RenderSegments ==
  { Segment(q, [Duration |-> d, Path |-> p]) :
      q \in RenderSequences, d \in RenderDurations, p \in RenderPaths }

\* the arguments of one BuildLivePlaylist call
RenderInputs ==
  (UNION { [1..n -> RenderSegments] : n \in 0..MaxLen }) \X BOOLEAN

RenderInit ==
  /\ streams = EmptyMap
  /\ mu = [writer |-> NoOne, readers |-> {}]
  /\ windowSizeArg = 0
  /\ windowSize = NewService(windowSizeArg)
  /\ metrics = NewMetrics
  /\ pc = [g \in Goroutines |-> "idle"]
  /\ \E in \in RenderInputs :
       frame = [g \in Goroutines |->
                  IF g = Client
                  THEN [IdleFrame EXCEPT !.op = "BuildLivePlaylist",
                                         !.segments = in[1], !.ended = in[2]]
                  ELSE IdleFrame]
  /\ calls = 0
  /\ endReturned = {}
  /\ endReturnedKnown = {}
  /\ accepted = {}
  /\ outOfOrder = {}

\* BuildLivePlaylist(segments, ended) returns
Render ==
  /\ pc[Client] = "idle"
  /\ frame[Client].op = "BuildLivePlaylist"
  /\ frame' = [frame EXCEPT ![Client].ret =
                 [NoRet EXCEPT !.m3u8 = BuildLivePlaylist(frame[Client].segments,
                                                          frame[Client].ended),
                               !.outcome = "rendered"]]
  /\ pc' = [pc EXCEPT ![Client] = "ret"]
  /\ UNCHANGED <<streams, mu, windowSize, windowSizeArg, metrics, calls, endReturned,
                 endReturnedKnown,
                 accepted, outOfOrder>>

RenderNext == Render

RenderSpec == RenderInit /\ [][RenderNext]_vars

\* ------------------------------------------------- claims on the renderer

\* ------------------------------------------------- claims on the constructor

\* what a Service constructed with windowSize ws returns for the snapshot the
\* client's GetPlaylist took
PlaylistOfServiceWith(ws) ==
  BuildLivePlaylist(contiguousVisibleSegments(frame[Client].ret.segments, NewService(ws)),
                    frame[Client].ret.ended)

\* C17 (default window): a Service constructed with windowSize <= 0 holds
\* window size 6 and returns, after every sequence of calls, the playlist a
\* Service constructed with 6 returns for the same registry; a Service
\* constructed with a positive windowSize holds that value; and no call
\* changes the window size.
C17_DefaultWindow ==
  /\ [](/\ windowSizeArg <= 0 => windowSize = 6
        /\ windowSizeArg > 0 => windowSize = windowSizeArg
        /\ (ClientPlaylist /\ windowSizeArg <= 0)
             => frame[Client].ret.m3u8 = PlaylistOfServiceWith(6))
  /\ [][windowSize' = windowSize]_vars

\* C17 witness: a Service constructed with windowSize -1 has 1..7 registered
\* and its playlist lists 2..7.
C17_Witness ==
  /\ ClientPlaylist
  /\ windowSizeArg = -1
  /\ Registered = 1..7
  /\ Listed = 2..7

\* BuildLivePlaylist has returned
Rendered == pc[Client] = "ret" /\ frame[Client].op = "BuildLivePlaylist"

\* C15 (media sequence and entries): for every list of segments the text
\* starts with the header, a target-duration line and the line
\* EXT-X-MEDIA-SEQUENCE carrying the first segment's sequence (0 for the empty
\* list); it has exactly one #EXTINF line per segment, in the order given,
\* each followed by that segment's path; and no #EXTINF for the empty list.
C15_MediaSequenceAndEntries ==
  Rendered
  => LET segments == frame[Client].segments
         m3u8     == frame[Client].ret.m3u8
     IN  /\ m3u8[1] = EXTM3U
         /\ m3u8[2] = VERSION
         /\ m3u8[3][1] = "#EXT-X-TARGETDURATION:"
         /\ m3u8[4] = MediaSequenceLine(IF Len(segments) = 0 THEN 0
                                        ELSE segments[1].Sequence)
         /\ Cardinality(ExtInfLines(m3u8)) = Len(segments)
         /\ \A i \in 1..Len(segments) :
              /\ m3u8[4 + 2 * i] = ExtInfLine(segments[i].Duration)
              /\ m3u8[5 + 2 * i] = PathLine(segments[i].Path)

\* C15 witness: three segments with different paths and durations, the first
\* with sequence 3, were rendered with media sequence 3.
C15_Witness ==
  /\ Rendered
  /\ Len(frame[Client].segments) = 3
  /\ frame[Client].segments[1].Sequence = 3
  /\ frame[Client].segments[1].Path # frame[Client].segments[2].Path
  /\ frame[Client].segments[2].Duration # frame[Client].segments[3].Duration
  /\ frame[Client].ret.m3u8[4] = MediaSequenceLine(3)

\* the least whole number of seconds not below d tenths
CeilingOfTenths(d) == CHOOSE k \in -10..10 : 10 * k >= d /\ 10 * (k - 1) < d

\* the durations of a list of segments
DurationsOf(segments) == { segments[i].Duration : i \in 1..Len(segments) }

\* C16 (target duration): EXT-X-TARGETDURATION is the ceiling of the largest
\* duration in the list, and 1 when the list is empty or no duration is
\* positive; it is never below 1.
C16_TargetDuration ==
  Rendered
  => LET D      == DurationsOf(frame[Client].segments)
         target == IF D = {} \/ MaxOf(D) <= 0 THEN 1 ELSE CeilingOfTenths(MaxOf(D))
     IN  /\ frame[Client].ret.m3u8[3] = TargetDurationLine(target)
         /\ frame[Client].ret.m3u8[3][2] >= 1

\* C16 witness: a list whose durations are 1.1, 2.5 and one that is not
\* positive was rendered with target duration 3.
C16_Witness ==
  /\ Rendered
  /\ {11, 25} \subseteq DurationsOf(frame[Client].segments)
  /\ \E d \in DurationsOf(frame[Client].segments) : d <= 0
  /\ frame[Client].ret.m3u8[3] = TargetDurationLine(3)

\* ------------------------------------------------------- the HTTP handlers
\* One client sends requests to the Handler and reads each response before it
\* sends the next; each handler runs from its first line to its return in
\* one step.

\* the number of requests the client sends
MaxRequests == 4

StatusOK == 200

StatusCreated == 201

StatusBadRequest == 400

StatusNotFound == 404

StatusMethodNotAllowed == 405

StatusConflict == 409

StatusInternalServerError == 500

HttpMethods == {"GET", "POST"}

\* chi.URLParam(r, "stream_id"): empty when the request carries none
HttpStreamIDs == {"", "s1"}

\* chi.URLParam(r, "rendition")
HttpRenditionIDs == {"", "720p"}

\* a JSON object with all three fields of a Segment
BodyOf(q) == [wellFormed |-> TRUE, typed |-> TRUE, has |-> {"sequence", "duration", "path"},
              sequence |-> q, duration |-> 20, path |-> "/a.ts"]

\* the JSON object {}
EmptyObject == [NoBody EXCEPT !.wellFormed = TRUE, !.typed = TRUE]

\* {"sequence": "x"}: well-formed JSON whose sequence is not a number
MistypedObject == [BodyOf(1) EXCEPT !.typed = FALSE]

\* request bodies: two segments, {}, a mistyped object, and text that is not JSON
HttpBodies == {BodyOf(1), BodyOf(2), EmptyObject, MistypedObject, NoBody}

\* a decoder that turns whatever it cannot decode into the zero Segment
DecodeAnything(body) ==
  [err |-> FALSE,
   seg |-> [Sequence |-> IF body.wellFormed /\ body.typed /\ "sequence" \in body.has
                         THEN body.sequence ELSE 0,
            Duration |-> 0, Path |-> ""]]

\* json.NewDecoder(r.Body).Decode(&seg): a field the object lacks keeps its
\* zero value; a syntax error or a value of the wrong type is an error
Decode(body) ==
  IF ~body.wellFormed \/ ~body.typed
  THEN [err |-> TRUE, seg |-> NoSegment]
  ELSE [err |-> FALSE,
        seg |-> [Sequence |-> IF "sequence" \in body.has THEN body.sequence ELSE 0,
                 Duration |-> IF "duration" \in body.has THEN body.duration ELSE 0,
                 Path     |-> IF "path" \in body.has THEN body.path ELSE ""]]

\* the switch on the error of svc.RegisterSegment, and the success path
registerStatus(err) ==
  IF err = Nil THEN StatusCreated
  ELSE IF err \in {ErrStreamEnded, ErrRenditionEnded} THEN StatusConflict
  ELSE StatusInternalServerError

\* a request as the handler sees it, with the response not yet written
Request(op, method, s, r, body) ==
  [NewFrame(op, s, r, NoSegment) EXCEPT !.method = method, !.body = body]

HttpInit ==
  /\ streams = EmptyMap
  /\ mu = [writer |-> NoOne, readers |-> {}]
  /\ windowSizeArg \in WindowSizeArgs
  /\ windowSize = NewService(windowSizeArg)
  /\ metrics = NewMetrics
  /\ pc = [g \in Goroutines |-> "idle"]
  /\ frame = [g \in Goroutines |-> IdleFrame]
  /\ calls = 0
  /\ endReturned = {}
  /\ endReturnedKnown = {}
  /\ accepted = {}
  /\ outOfOrder = {}

\* Handler.RegisterSegment
Http_RegisterSegment ==
  /\ calls < MaxRequests
  /\ \E method \in HttpMethods, s \in HttpStreamIDs, r \in HttpRenditionIDs,
        body \in HttpBodies :
       LET req == Request("Handler.RegisterSegment", method, s, r, body)
           dec == Decode(body)
       IN  IF method # "POST"
           THEN /\ frame' = [frame EXCEPT ![Client] =
                               [req EXCEPT !.status = StatusMethodNotAllowed]]
                /\ UNCHANGED <<streams, metrics>>
           ELSE IF s = "" \/ r = ""
           THEN /\ frame' = [frame EXCEPT ![Client] =
                               [req EXCEPT !.status = StatusBadRequest]]
                /\ UNCHANGED <<streams, metrics>>
           ELSE IF dec.err
           THEN /\ frame' = [frame EXCEPT ![Client] =
                               [req EXCEPT !.status = StatusBadRequest]]
                /\ UNCHANGED <<streams, metrics>>
           ELSE LET res == RegisterSegment(streams, s, r, dec.seg)
                IN  /\ streams' = res.streams
                    /\ frame' = [frame EXCEPT ![Client] =
                                   [req EXCEPT !.seg = dec.seg,
                                               !.status = registerStatus(res.err),
                                               !.ret = [NoRet EXCEPT !.err = res.err,
                                                                     !.outcome = res.outcome]]]
                    /\ metrics' = IF res.err = Nil
                                  THEN [metrics EXCEPT !.segmentsRegisteredTotal = @ + 1]
                                  ELSE metrics
  /\ pc' = [pc EXCEPT ![Client] = "ret"]
  /\ calls' = calls + 1
  /\ UNCHANGED <<mu, windowSize, windowSizeArg, endReturned, endReturnedKnown,
                 accepted, outOfOrder>>

\* Handler.GetPlaylist
Http_GetPlaylist ==
  /\ calls < MaxRequests
  /\ \E method \in HttpMethods, s \in HttpStreamIDs, r \in HttpRenditionIDs :
       LET req == Request("Handler.GetPlaylist", method, s, r, NoBody)
       IN  IF method # "GET"
           THEN frame' = [frame EXCEPT ![Client] =
                            [req EXCEPT !.status = StatusMethodNotAllowed]]
           ELSE IF s = "" \/ r = ""
           THEN frame' = [frame EXCEPT ![Client] =
                            [req EXCEPT !.status = StatusBadRequest]]
           ELSE \E order \in RunSnapshotOrders(streams, s, r) :
                  LET ret == GetPlaylist(GetRenditionSnapshot(streams, s, r, order),
                                         windowSize)
                  IN  frame' = [frame EXCEPT ![Client] =
                                  [req EXCEPT !.status = IF ~ret.ok THEN StatusNotFound
                                                         ELSE StatusOK,
                                              !.ret = ret]]
  /\ pc' = [pc EXCEPT ![Client] = "ret"]
  /\ calls' = calls + 1
  /\ UNCHANGED <<streams, mu, windowSize, windowSizeArg, metrics, endReturned,
                 endReturnedKnown, accepted, outOfOrder>>

\* Handler.EndStream
Http_EndStream ==
  /\ calls < MaxRequests
  /\ \E method \in HttpMethods, s \in HttpStreamIDs :
       LET req == Request("Handler.EndStream", method, s, "", NoBody)
       IN  IF method # "POST"
           THEN /\ frame' = [frame EXCEPT ![Client] =
                               [req EXCEPT !.status = StatusMethodNotAllowed]]
                /\ UNCHANGED <<streams, metrics>>
           ELSE IF s = ""
           THEN /\ frame' = [frame EXCEPT ![Client] =
                               [req EXCEPT !.status = StatusBadRequest]]
                /\ UNCHANGED <<streams, metrics>>
           ELSE /\ streams' = EndStream(streams, s)
                /\ frame' = [frame EXCEPT ![Client] =
                               [req EXCEPT !.status = StatusOK,
                                           !.ret = [NoRet EXCEPT !.outcome = "returned"]]]
                /\ metrics' = [metrics EXCEPT !.streamsEndedTotal = @ + 1]
  /\ pc' = [pc EXCEPT ![Client] = "ret"]
  /\ calls' = calls + 1
  /\ UNCHANGED <<mu, windowSize, windowSizeArg, endReturned, endReturnedKnown,
                 accepted, outOfOrder>>

HttpNext == Http_RegisterSegment \/ Http_GetPlaylist \/ Http_EndStream

HttpSpec == HttpInit /\ [][HttpNext]_vars

\* ------------------------------------------------- claims on the handlers

\* the body is a JSON object whose fields have the types of a Segment
Decodable(body) == body.wellFormed /\ body.typed

StreamsEnded == Cardinality({ s \in DOMAIN streams : streams[s].Ended })

\* C21 (streams-ended counter): after any sequence of HTTP requests the
\* hls_streams_ended_total counter equals the number of streams that have
\* been ended.
C21_StreamsEndedCounter == metrics.streamsEndedTotal = StreamsEnded

\* ------------------------------------------------ callers that may block
\* A call is made first and takes the lock in a later step, so a caller can
\* be blocked in Lock or RLock while another goroutine is inside.

\* the number of calls made in all
MaxLiveCalls == 3

LiveGoroutines == {"g1", "g2"}

LiveRegisterInputs ==
  { <<"s1", "720p", Segment(1, PayloadA)>>, <<"s1", "480p", Segment(1, PayloadA)>> }

LiveStreamIDs == {"s1"}

LiveInit ==
  /\ streams = EmptyMap
  /\ mu = [writer |-> NoOne, readers |-> {}]
  /\ windowSizeArg = 0
  /\ windowSize = NewService(windowSizeArg)
  /\ metrics = NewMetrics
  /\ pc = [g \in LiveGoroutines |-> "idle"]
  /\ frame = [g \in LiveGoroutines |-> IdleFrame]
  /\ calls = 0
  /\ endReturned = {}
  /\ endReturnedKnown = {}
  /\ accepted = {}
  /\ outOfOrder = {}

LiveCanCall(g) == pc[g] \in {"idle", "ret"} /\ calls < MaxLiveCalls

\* the call is made: its frame, and where it waits
Called(g, fr, wait, canEnter) ==
  /\ LiveCanCall(g)
  /\ frame' = [frame EXCEPT ![g] = [fr EXCEPT !.blocked = ~canEnter]]
  /\ pc' = [pc EXCEPT ![g] = wait]
  /\ calls' = calls + 1
  /\ UNCHANGED <<streams, mu, windowSize, windowSizeArg, metrics, endReturned,
                 endReturnedKnown, accepted, outOfOrder>>

\* the lock is taken and the call goes on at `next`
Entered(g, wait, canEnter, lock, next) ==
  /\ pc[g] = wait
  /\ canEnter
  /\ mu' = lock
  /\ pc' = [pc EXCEPT ![g] = next]
  /\ UNCHANGED <<streams, windowSize, windowSizeArg, metrics, frame, calls, endReturned,
                 endReturnedKnown, accepted, outOfOrder>>

\* repo.RegisterSegment(s, r, seg) is called
RS_Call(g) ==
  \E in \in LiveRegisterInputs :
    Called(g, NewFrame("RegisterSegment", in[1], in[2], in[3]), "RS_Lock", CanLock)

\* r.mu.Lock() returns in RegisterSegment
RS_Acquire(g) == Entered(g, "RS_Lock", CanLock, Lock(g), "RS_Stream")

\* repo.EndStream(s) is called
ES_Call(g) ==
  \E s \in LiveStreamIDs :
    Called(g, NewFrame("EndStream", s, "", NoSegment), "ES_Lock", CanLock)

\* r.mu.Lock() returns in EndStream
ES_Acquire(g) == Entered(g, "ES_Lock", CanLock, Lock(g), "ES_Get")

\* repo.GetRenditionSnapshot(s, r) is called
GP_Call(g) ==
  \E s \in LiveStreamIDs :
    Called(g, NewFrame("GetPlaylist", s, "720p", NoSegment), "GP_RLock", CanRLock)

\* r.mu.RLock() returns in GetRenditionSnapshot
GP_Acquire(g) == Entered(g, "GP_RLock", CanRLock, RLock(g), "GP_Snapshot")

\* repo.ActiveStreamCount() is called
AC_Call(g) ==
  Called(g, NewFrame("ActiveStreamCount", "", "", NoSegment), "AC_RLock", CanRLock)

\* r.mu.RLock() returns in ActiveStreamCount
AC_Acquire(g) == Entered(g, "AC_RLock", CanRLock, RLock(g), "AC_Count")

\* a step of g inside a call it has made
LiveStep(g) ==
  \/ RS_Acquire(g)
  \/ RS_Stream(g)
  \/ RS_Rendition(g)
  \/ RS_Store(g)
  \/ ES_Acquire(g)
  \/ ES_Get(g)
  \/ ES_Cascade(g)
  \/ GP_Acquire(g)
  \/ GP_Snapshot(g)
  \/ AC_Acquire(g)
  \/ AC_Count(g)

LiveNext ==
  \E g \in LiveGoroutines :
    \/ RS_Call(g)
    \/ ES_Call(g)
    \/ GP_Call(g)
    \/ AC_Call(g)
    \/ LiveStep(g)

\* the scheduler runs every goroutine that can take a step
LiveFairness == \A g \in LiveGoroutines : WF_vars(LiveStep(g))

LiveSpec == LiveInit /\ [][LiveNext]_vars /\ LiveFairness

\* ------------------------------------------------------ claims on blocking

\* g has made a call that has not returned
InCall(g) == pc[g] \notin {"idle", "ret"}

LockFree == mu.writer = NoOne /\ mu.readers = {}

\* C22 (no operation blocks indefinitely): under fair scheduling every call
\* of RegisterSegment, EndStream, GetRenditionSnapshot and ActiveStreamCount
\* that is made eventually returns, and the registry lock is free whenever no
\* call is in progress, whichever return path each call took.
C22_NoIndefiniteBlocking ==
  /\ \A g \in LiveGoroutines : InCall(g) ~> pc[g] = "ret"
  /\ []((\A g \in LiveGoroutines : ~InCall(g)) => LockFree)

\* C22 witness: every call has returned and the lock is free; a
\* registration that found the lock taken when it was made was rejected with
\* ErrStreamEnded, and the other goroutine's last call is an EndStream.
C22_Witness ==
  /\ \A g \in LiveGoroutines : pc[g] = "ret"
  /\ LockFree
  /\ \E g \in LiveGoroutines : frame[g].blocked /\ frame[g].ret.err = ErrStreamEnded
  /\ \E g \in LiveGoroutines : frame[g].op = "EndStream"


\* ------------------------------------------------ the window selectors alone
\*
\* The two selectors of playlist_utils.go and Service.GetPlaylist applied to
\* one sorted list of segments with one window size, each once, in any order.
\* The window size is drawn from negative, zero and positive values; a
\* Service only ever holds a positive one (NewService).

MaxSelect == 5

SelectWindowSizes == {-2, -1, 0, 1, 2, 3, 6}

\* the sorted lists of segments with distinct sequences in 1..MaxSelect
SelectInputs ==
  { [i \in 1..Cardinality(S) |->
       LET d == Descending(S) IN Segment(d[Cardinality(S) + 1 - i], PayloadA)] :
      S \in SUBSET (1..MaxSelect) }

SelectFunctions == {"contiguousVisibleSegments", "contiguousSlidingWindow", "GetPlaylist"}

SelectInit ==
  /\ streams = EmptyMap
  /\ mu = [writer |-> NoOne, readers |-> {}]
  /\ windowSizeArg \in SelectWindowSizes
  /\ windowSize = windowSizeArg
  /\ metrics = NewMetrics
  /\ pc = [g \in Goroutines |-> "idle"]
  /\ \E segs \in SelectInputs :
       frame = [g \in Goroutines |->
                  IF g = Client
                  THEN [IdleFrame EXCEPT !.op = "select", !.segments = segs,
                                         !.todo = SelectFunctions]
                  ELSE IdleFrame]
  /\ calls = 0
  /\ endReturned = {}
  /\ endReturnedKnown = {}
  /\ accepted = {}
  /\ outOfOrder = {}

\* the function fn has been applied: the last one returns the client
Applied(fn) ==
  pc' = [pc EXCEPT ![Client] = IF frame[Client].todo = {fn} THEN "ret" ELSE "idle"]

\* contiguousVisibleSegments(segs, windowSize) returns, or panics in segs[start:]
Select_Visible ==
  /\ pc[Client] = "idle"
  /\ "contiguousVisibleSegments" \in frame[Client].todo
  /\ IF contiguousVisibleSegmentsPanics(frame[Client].segments, windowSize)
     THEN /\ frame' = [frame EXCEPT ![Client].ret.outcome = "panic"]
          /\ pc' = [pc EXCEPT ![Client] = "panic"]
     ELSE /\ frame' = [frame EXCEPT
                         ![Client].ret.window =
                            contiguousVisibleSegments(frame[Client].segments, windowSize),
                         ![Client].todo = @ \ {"contiguousVisibleSegments"}]
          /\ Applied("contiguousVisibleSegments")
  /\ UNCHANGED <<streams, mu, windowSize, windowSizeArg, metrics, calls, endReturned,
                 endReturnedKnown, accepted, outOfOrder>>

\* contiguousSlidingWindow(segs, windowSize) returns
Select_Sliding ==
  /\ pc[Client] = "idle"
  /\ "contiguousSlidingWindow" \in frame[Client].todo
  /\ frame' = [frame EXCEPT
                 ![Client].ret.segments =
                    contiguousSlidingWindow(frame[Client].segments, windowSize),
                 ![Client].todo = @ \ {"contiguousSlidingWindow"}]
  /\ Applied("contiguousSlidingWindow")
  /\ UNCHANGED <<streams, mu, windowSize, windowSizeArg, metrics, calls, endReturned,
                 endReturnedKnown, accepted, outOfOrder>>

\* GetPlaylist of a Service built with NewService(windowSize), on a snapshot
\* that holds the list
Select_GetPlaylist ==
  /\ pc[Client] = "idle"
  /\ "GetPlaylist" \in frame[Client].todo
  /\ LET snap == [segments |-> frame[Client].segments, ended |-> FALSE, ok |-> TRUE]
     IN  frame' = [frame EXCEPT
                     ![Client].ret.m3u8 = GetPlaylist(snap, NewService(windowSize)).m3u8,
                     ![Client].todo = @ \ {"GetPlaylist"}]
  /\ Applied("GetPlaylist")
  /\ UNCHANGED <<streams, mu, windowSize, windowSizeArg, metrics, calls, endReturned,
                 endReturnedKnown, accepted, outOfOrder>>

SelectNext == Select_Visible \/ Select_Sliding \/ Select_GetPlaylist

SelectSpec == SelectInit /\ [][SelectNext]_vars

\* ----------------------------------------------- claims on the selectors alone

\* contiguousVisibleSegments has been applied to the list and has returned
VisibleApplied ==
  frame[Client].op = "select" /\ "contiguousVisibleSegments" \notin frame[Client].todo

\* the longest prefix of a list in which each sequence is the previous + 1
LongestContiguousPrefix(l) ==
  LET k == CHOOSE j \in 0..Len(l) :
             /\ ~HasGap(SubSeq(l, 1, j))
             /\ \A j2 \in 0..Len(l) : ~HasGap(SubSeq(l, 1, j2)) => j2 <= j
  IN  SubSeq(l, 1, k)

\* C26 (window selection matches the canonical algorithm): for every strictly
\* ascending list of n segments and every positive window size w,
\* contiguousVisibleSegments returns exactly the longest prefix of the last
\* min(n, w) elements in which each sequence is the previous + 1; when n <= w
\* and the list is not empty, that is the contiguous run starting at the
\* lowest sequence, and nothing after the first gap is shown.
C26_CanonicalWindow ==
  (VisibleApplied /\ windowSize > 0)
  => LET segs      == frame[Client].segments
         n         == Len(segs)
         m         == Min(n, windowSize)
         candidate == SubSeq(segs, n - m + 1, n)
         visible   == frame[Client].ret.window
     IN  /\ visible = LongestContiguousPrefix(candidate)
         /\ (0 < n /\ n <= windowSize)
            => /\ visible[1] = segs[1]
               /\ \A i \in 1..n :
                    (\E j \in 1..Len(visible) : visible[j] = segs[i])
                    <=> ~HasGap(SubSeq(segs, 1, i))

\* C26 witness: the list 1, 2, 4, 5 with window size 6 shows 1, 2 only.
C26_Witness ==
  /\ VisibleApplied
  /\ windowSize = 6
  /\ SequencesOf(frame[Client].segments) = <<1, 2, 4, 5>>
  /\ SequencesOf(frame[Client].ret.window) = <<1, 2>>

\* C27 (non-positive window size in the selector): for every non-empty sorted
\* list, contiguousVisibleSegments called with windowSize <= 0, zero or
\* negative, rejects the call or returns no visible segments; the function
\* returns nothing but the list, so that is an empty result; it never returns
\* segments and never fails in another way, such as a run-time panic.
C27_NonPositiveWindowSize ==
  (frame[Client].op = "select" /\ Len(frame[Client].segments) # 0 /\ windowSize <= 0)
  => /\ pc[Client] # "panic"
     /\ VisibleApplied => frame[Client].ret.window = <<>>

\* C28 (the two window algorithms differ only across a gap): for every strictly
\* ascending list and positive window size, contiguousSlidingWindow and
\* contiguousVisibleSegments return the same result whenever the list has no
\* gap, and the playlist GetPlaylist returns is the one built from the result
\* of contiguousVisibleSegments.
C28_SelectorsAgreeWithoutGap ==
  (pc[Client] = "ret" /\ frame[Client].op = "select" /\ windowSize > 0)
  => /\ ~HasGap(frame[Client].segments)
        => frame[Client].ret.segments = frame[Client].ret.window
     /\ frame[Client].ret.m3u8 = BuildLivePlaylist(frame[Client].ret.window, FALSE)

\* C28 witness: on a list without a gap and longer than the window both
\* selectors returned the same non-empty window, and GetPlaylist has returned.
C28_Witness ==
  /\ pc[Client] = "ret" /\ frame[Client].op = "select"
  /\ windowSize > 0
  /\ ~HasGap(frame[Client].segments)
  /\ Len(frame[Client].segments) > windowSize
  /\ frame[Client].ret.segments = frame[Client].ret.window
  /\ Len(frame[Client].ret.window) = windowSize

\* ------------------------------------------- the snapshot in its caller's hands
\*
\* Two goroutines register segments on one rendition, take snapshots with
\* GetRenditionSnapshot and then write to the slice they were returned:
\* contiguousVisibleSegments sorts it in place, and any other caller may
\* reorder, overwrite or truncate it. Each call is one step, as the lock
\* makes it; the writes to the slice happen outside the lock.

MaxCopyCalls == 5

MaxCopySeq == 2

CopySeqs == 1..MaxCopySeq

\* a returned slice that is the registry's own storage: the rendition holds
\* whatever the caller left in the slice
callerWriteThrough(st, s, r, slice) ==
  [st EXCEPT ![s].Renditions[r].Segments =
     [q \in { slice[i].Sequence : i \in 1..Len(slice) } |->
        slice[CHOOSE i \in 1..Len(slice) : slice[i].Sequence = q]]]

\* segments = make([]Segment, 0, len(sequences)); append(segments,
\* rendition.Segments[seq]): the slice is a new array of Segment values, so
\* the registry after a caller's write to it is the registry before
callerWrite(st, s, r, slice) == st

\* the list in reverse order
Reverse(segs) == [i \in 1..Len(segs) |-> segs[Len(segs) + 1 - i]]

\* what a caller may leave in the slice: the in-place sort of
\* contiguousVisibleSegments, a reordering, an element overwritten, a
\* truncation
Mutations(segs) ==
  {SortSegments(segs), Reverse(segs)}
    \cup { [segs EXCEPT ![i] = Segment(q, PayloadB)] : i \in 1..Len(segs), q \in CopySeqs }
    \cup { SubSeq(segs, 1, k) : k \in 0..(Len(segs) - 1) }

CopyInit ==
  /\ streams = EmptyMap
  /\ mu = [writer |-> NoOne, readers |-> {}]
  /\ windowSizeArg = 0
  /\ windowSize = NewService(windowSizeArg)
  /\ metrics = NewMetrics
  /\ pc = [g \in Goroutines |-> "idle"]
  /\ frame = [g \in Goroutines |-> IdleFrame]
  /\ calls = 0
  /\ endReturned = {}
  /\ endReturnedKnown = {}
  /\ accepted = {}
  /\ outOfOrder = {}

\* repo.RegisterSegment(RunStream, RunRendition, seg) called and returned
Copy_RegisterSegment(g) ==
  /\ calls < MaxCopyCalls
  /\ \E q \in CopySeqs :
       LET seg == Segment(q, PayloadA)
           res == RegisterSegment(streams, RunStream, RunRendition, seg)
       IN  /\ streams' = res.streams
           /\ frame' = [frame EXCEPT ![g] =
                          [NewFrame("RegisterSegment", RunStream, RunRendition, seg)
                             EXCEPT !.ret = [NoRet EXCEPT !.err = res.err,
                                                          !.outcome = res.outcome]]]
           /\ accepted' = IF res.outcome = "stored"
                          THEN accepted \cup {<<RunStream, RunRendition, seg>>}
                          ELSE accepted
  /\ pc' = [pc EXCEPT ![g] = "ret"]
  /\ calls' = calls + 1
  /\ UNCHANGED <<mu, windowSize, windowSizeArg, metrics, endReturned, endReturnedKnown,
                 outOfOrder>>

\* repo.GetRenditionSnapshot(RunStream, RunRendition) called and returned:
\* the caller now holds the slice
Copy_Snapshot(g) ==
  /\ calls < MaxCopyCalls
  /\ \E order \in RunSnapshotOrders(streams, RunStream, RunRendition) :
       LET snap == GetRenditionSnapshot(streams, RunStream, RunRendition, order)
       IN  frame' = [frame EXCEPT ![g] =
                       [NewFrame("GetRenditionSnapshot", RunStream, RunRendition, NoSegment)
                          EXCEPT !.ret = [NoRet EXCEPT !.segments = snap.segments,
                                                       !.ended = snap.ended,
                                                       !.ok = snap.ok,
                                                       !.outcome = "snapshot"]]]
  /\ pc' = [pc EXCEPT ![g] = "ret"]
  /\ calls' = calls + 1
  /\ UNCHANGED <<streams, mu, windowSize, windowSizeArg, metrics, endReturned,
                 endReturnedKnown, accepted, outOfOrder>>

\* the caller writes to the slice it was returned
Copy_Mutate(g) ==
  /\ calls < MaxCopyCalls
  /\ pc[g] = "ret"
  /\ frame[g].op = "GetRenditionSnapshot"
  /\ frame[g].ret.ok
  /\ \E slice \in Mutations(frame[g].ret.segments) :
       /\ frame' = [frame EXCEPT ![g].ret.segments = slice,
                                 ![g].ret.outcome = "written"]
       /\ streams' = callerWrite(streams, RunStream, RunRendition, slice)
  /\ calls' = calls + 1
  /\ UNCHANGED <<mu, windowSize, windowSizeArg, metrics, pc, endReturned,
                 endReturnedKnown, accepted, outOfOrder>>

CopyNext ==
  \E g \in Goroutines : Copy_RegisterSegment(g) \/ Copy_Snapshot(g) \/ Copy_Mutate(g)

CopySpec == CopyInit /\ [][CopyNext]_vars

\* the sorted list of the segments stored as new for the run's rendition
AcceptedList ==
  LET S == AcceptedOn(RunStream, RunRendition)
      d == Descending({ a.Sequence : a \in S })
  IN  [i \in 1..Len(d) |-> CHOOSE a \in S : a.Sequence = d[Len(d) + 1 - i]]

MaxPlaySeq == 4

PlayWindowSizeArgs == {0, 2}

Encoder == "g1"

Player == "g2"

\* every sequence on the first rendition, one segment on the second
PlayRegisterInputs ==
  { <<RunStream, "720p", Segment(q, PayloadA)>> : q \in 1..MaxPlaySeq }
    \cup { <<RunStream, "480p", Segment(1, PayloadB)>> }

PlayInit ==
  /\ streams = EmptyMap
  /\ mu = [writer |-> NoOne, readers |-> {}]
  /\ windowSizeArg \in PlayWindowSizeArgs
  /\ windowSize = NewService(windowSizeArg)
  /\ metrics = NewMetrics
  /\ pc = [g \in Goroutines |-> "idle"]
  /\ frame = [g \in Goroutines |-> IdleFrame]
  /\ calls = 0
  /\ endReturned = {}
  /\ endReturnedKnown = {}
  /\ accepted = {}
  /\ outOfOrder = {}

\* svc.RegisterSegment(s, r, seg) called by the encoder, and returned
Play_RegisterSegment ==
  /\ \E in \in PlayRegisterInputs :
       LET res == RegisterSegment(streams, in[1], in[2], in[3])
       IN  /\ streams' = res.streams
           /\ frame' = [frame EXCEPT ![Encoder] =
                          [NewFrame("RegisterSegment", in[1], in[2], in[3])
                             EXCEPT !.ret = [NoRet EXCEPT !.err = res.err,
                                                          !.outcome = res.outcome]]]
  /\ pc' = [pc EXCEPT ![Encoder] = "ret"]
  /\ UNCHANGED <<mu, windowSize, windowSizeArg, metrics, calls, endReturned, endReturnedKnown,
                 accepted, outOfOrder>>

\* svc.EndStream(RunStream) called by the encoder, and returned
Play_EndStream ==
  /\ streams' = EndStream(streams, RunStream)
  /\ frame' = [frame EXCEPT ![Encoder] =
                 [NewFrame("EndStream", RunStream, "", NoSegment)
                    EXCEPT !.ret = [NoRet EXCEPT !.outcome = "returned"]]]
  /\ pc' = [pc EXCEPT ![Encoder] = "ret"]
  /\ endReturned' = endReturned \cup {RunStream}
  /\ endReturnedKnown' =
       IF StreamExists(streams, RunStream)
       THEN endReturnedKnown \cup {RunStream} ELSE endReturnedKnown
  /\ UNCHANGED <<mu, windowSize, windowSizeArg, metrics, calls, accepted, outOfOrder>>

\* svc.GetPlaylist(RunStream, r) called by the player, and returned
Play_GetPlaylist ==
  /\ \E r \in RenditionIDs :
       \E order \in RunSnapshotOrders(streams, RunStream, r) :
         LET snap == GetRenditionSnapshot(streams, RunStream, r, order)
             last == frame[Player]
         IN  frame' = [frame EXCEPT ![Player] =
                         [NewFrame("GetPlaylist", RunStream, r, NoSegment)
                            EXCEPT !.ret = [GetPlaylist(snap, windowSize) EXCEPT
                                              !.streamEnded =
                                                 StreamExists(streams, RunStream)
                                                   /\ streams[RunStream].Ended],
                                   !.prev = IF last.op = "GetPlaylist" /\ last.renditionID = r
                                            THEN [last.ret EXCEPT !.segments = <<>>,
                                                                  !.window = <<>>,
                                                                  !.n = Len(last.ret.segments)]
                                            ELSE NoRet]]
  /\ pc' = [pc EXCEPT ![Player] = "ret"]
  /\ UNCHANGED <<streams, mu, windowSize, windowSizeArg, metrics, calls, endReturned,
                 endReturnedKnown, accepted, outOfOrder>>

PlayNext == Play_RegisterSegment \/ Play_EndStream \/ Play_GetPlaylist

PlaySpec == PlayInit /\ [][PlayNext]_vars

\* ------------------------------------------------- claims on encoder and player

\* the value on the EXT-X-MEDIA-SEQUENCE line of a playlist text
MediaSequenceOf(m3u8) ==
  (m3u8[CHOOSE i \in DOMAIN m3u8 : m3u8[i][1] = "#EXT-X-MEDIA-SEQUENCE:"])[2]

\* the player's last two calls were GetPlaylist calls for the same rendition
\* and both reported found
TwoPlaylists ==
  /\ ReturnedPlaylist(Player)
  /\ frame[Player].prev.outcome = "found"

\* C34 as claimed: the EXT-X-MEDIA-SEQUENCE of a GetPlaylist response is
\* greater than or equal to that of the earlier response for the same pair,
\* whatever was registered in between and in whatever order.
C34_MediaSequenceNeverBackwards ==
  TwoPlaylists
  => MediaSequenceOf(frame[Player].ret.m3u8) >= MediaSequenceOf(frame[Player].prev.m3u8)

\* C34 (media sequence never goes backwards), amended: the
\* EXT-X-MEDIA-SEQUENCE of a GetPlaylist response is greater than or equal to
\* that of an earlier response for the same pair that was taken when the
\* rendition held at least windowSize segments; a response taken while it
\* holds fewer carries the lowest registered sequence, which the late arrival
\* of a lower sequence lowers.
C34_MediaSequenceOnceWindowFull ==
  /\ (TwoPlaylists /\ frame[Player].prev.n >= windowSize)
     => MediaSequenceOf(frame[Player].ret.m3u8) >= MediaSequenceOf(frame[Player].prev.m3u8)
  /\ (ReturnedPlaylist(Player) /\ Len(frame[Player].ret.segments) <= windowSize)
     => MediaSequenceOf(frame[Player].ret.m3u8) = frame[Player].ret.segments[1].Sequence

\* C34 witness: the earlier response was taken with a full window; a sequence
\* below its EXT-X-MEDIA-SEQUENCE arrived afterwards and is in the later
\* response's snapshot, and the later response's value is not lower.
C34_Witness ==
  /\ TwoPlaylists
  /\ frame[Player].prev.n >= windowSize
  /\ Len(frame[Player].ret.segments) > frame[Player].prev.n
  /\ frame[Encoder].op = "RegisterSegment" /\ frame[Encoder].ret.outcome = "stored"
  /\ frame[Encoder].renditionID = frame[Player].renditionID
  /\ frame[Encoder].seg.Sequence < MediaSequenceOf(frame[Player].prev.m3u8)
  /\ \E i \in 1..Len(frame[Player].ret.segments) :
       frame[Player].ret.segments[i] = frame[Encoder].seg
  /\ MediaSequenceOf(frame[Player].ret.m3u8) >= MediaSequenceOf(frame[Player].prev.m3u8)

\* C35 (a served playlist is never empty): whenever GetPlaylist reports found,
\* the window size being positive, the playlist lists at least one segment;
\* its first listed segment, whose sequence is on the EXT-X-MEDIA-SEQUENCE
\* line, is the element at position max(0, n - windowSize) of the rendition's
\* n sorted segments; and the text is never the empty form with
\* EXT-X-MEDIA-SEQUENCE:0 and no #EXTINF.
C35_PlaylistNeverEmpty ==
  ReturnedPlaylist(Player)
  => LET segs   == frame[Player].ret.segments
         n      == Len(segs)
         first  == IF n - windowSize > 0 THEN n - windowSize ELSE 0
         m3u8   == frame[Player].ret.m3u8
     IN  /\ windowSize > 0
         /\ n >= 1
         /\ Len(frame[Player].ret.window) >= 1
         /\ Cardinality(ExtInfLines(m3u8)) = Len(frame[Player].ret.window)
         /\ frame[Player].ret.window[1] = segs[first + 1]
         /\ MediaSequenceOf(m3u8) = segs[first + 1].Sequence
         /\ m3u8 # BuildLivePlaylist(<<>>, frame[Player].ret.ended)
         /\ MediaSequenceLine(0) \notin { m3u8[i] : i \in DOMAIN m3u8 }

\* C35 witness: the rendition holds more segments than the window and the
\* window's first two segments are not consecutive, so the playlist lists
\* exactly one segment, the one at position n - windowSize.
C35_Witness ==
  /\ ReturnedPlaylist(Player)
  /\ Len(frame[Player].ret.segments) > windowSize
  /\ Len(frame[Player].ret.window) = 1
  /\ Cardinality(ExtInfLines(frame[Player].ret.m3u8)) = 1
  /\ frame[Player].ret.window[1]
       = frame[Player].ret.segments[Len(frame[Player].ret.segments) - windowSize + 1]

\* C37 (an ended playlist is final): once EndStream has returned for a stream
\* that has segments, every later GetPlaylist for a given rendition of that
\* stream returns what the one before it returned, the same text for a
\* rendition that is found and not-found for one that is not, whatever
\* RegisterSegment and EndStream calls are made in between; so all of them
\* return the same text.
C37_EndedPlaylistFinal ==
  /\ (/\ pc[Player] = "ret" /\ frame[Player].op = "GetPlaylist"
      /\ frame[Player].prev.outcome # ""
      /\ frame[Player].prev.streamEnded)
     => /\ frame[Player].ret.ok = frame[Player].prev.ok
        /\ frame[Player].ret.m3u8 = frame[Player].prev.m3u8
        /\ frame[Player].ret.streamEnded
  /\ (ReturnedPlaylist(Player) /\ frame[Player].afterEndKnown)
     => /\ frame[Player].ret.streamEnded
        /\ HasEndList(frame[Player].ret.m3u8)

\* C37 witness: two GetPlaylist calls made after the stream was ended returned
\* the same text, which lists segments and carries ENDLIST, and the encoder's
\* last call, a registration of a sequence the polled rendition does not
\* hold, was rejected.
C37_Witness ==
  /\ TwoPlaylists
  /\ frame[Player].prev.streamEnded
  /\ frame[Player].ret.m3u8 = frame[Player].prev.m3u8
  /\ HasEndList(frame[Player].ret.m3u8)
  /\ Len(frame[Player].ret.window) >= 2
  /\ frame[Encoder].op = "RegisterSegment"
  /\ frame[Encoder].ret.err = ErrStreamEnded
  /\ frame[Encoder].renditionID = frame[Player].renditionID
  /\ \A i \in 1..Len(frame[Player].ret.segments) :
       frame[Player].ret.segments[i].Sequence # frame[Encoder].seg.Sequence

====
